---------------------------- MODULE Spec2Model ----------------------------
(***************************************************************************)
(* A model of the email payment processor: the processed-email ledger      *)
(* (email_tracking.py), the batched webhook dispatch (webhook_sender.py),  *)
(* the fetch stage (email_handler.py), the orchestrator (main.py) and the  *)
(* CSV extractor with its field functions (file_processor.py).             *)
(*                                                                         *)
(* The specifications share the variables:                                 *)
(*   SpecLedger  the EmailTracker operations on one tracking file          *)
(*   SpecBatch   one call of WebhookSender.send_webhook_batch              *)
(*   SpecCsv     one call of FileProcessor.process_csv_file                *)
(*   SpecFields  one call of a field function of the CSV extractor         *)
(*   SpecFiles   one call of EmailProcessor.process_downloaded_files       *)
(*   SpecSchedule  one call of calculate_next_run_time (scheduler.py)      *)
(*   SpecAuth    the webhook configuration and the sender built from it    *)
(*   SpecRun     successive runs of EmailProcessor.process_emails          *)
(***************************************************************************)
EXTENDS Integers, Sequences, FiniteSets, TLC

VARIABLES
    \* ---- EmailTracker (email_tracking.py)
    processed_emails,   \* self.processed_emails: the in-memory set
    tracking_file,      \* content of self.tracking_file on disk
    savesOk,            \* history: every persistence step since the load succeeded
    lastOp,             \* history: the last ledger operation and the set before it
    \* ---- WebhookSender.send_webhook_batch (webhook_sender.py)
    payments,           \* argument: the list of payment records
    batch_size,         \* argument
    webhook_url,        \* config.webhook.webhook_url is non-empty
    bpc,                \* position in send_webhook_batch
    i,                  \* loop variable of "for i in range(...)"
    batches_sent,
    failed_batches,
    calls,              \* history: the send_webhook calls made, in order
    response,           \* what session.post did in the latest send_webhook call
    batch_result,       \* the returned dict
    \* ---- FileProcessor.process_csv_file (file_processor.py)
    table,              \* the file handed to process_csv_file
    cpc,                \* position in process_csv_file
    filtered_df,        \* row indices kept by the row filter
    csv_payments,       \* the returned list
    fn_call,            \* a call of one function: its name and arguments
    fn_return,          \* what the call returned
    fnpc,               \* position of that call
    download_folder,    \* the files in the browser's download folder
    clock,              \* seconds since start_time of _wait_for_download
    downloaded_files,   \* argument of process_downloaded_files
    file_index,         \* the file its loop is at
    file_payments,      \* its all_payments
    flpc,               \* position in process_downloaded_files
    \* ---- EmailProcessor.process_emails (main.py)
    pc,                 \* position in process_emails
    mailbox,            \* the server's messages (ids with subject/link attributes)
    emails_with_downloads, \* result of get_latest_emails_with_downloads
    k,                  \* index of the email being handled
    downloaded,         \* downloaded_files of the current email is non-empty
    all_payments,
    errors,             \* results["errors"] as a sequence of tags
    run_result,         \* results["success"], or "none" while running
    seen_flags,         \* ids flagged \Seen on the server
    filesProcessed,     \* history: ids whose process_downloaded_files returned (this run)
    raisedFor,          \* history: ids whose handling raised (this run)
    noFilesFor,         \* history: ids for which download_files gave no file (this run)
    markedThisRun,      \* history: ids passed to mark_as_processed (this run)
    ledgerAtFetch       \* history: the in-memory ledger when the fetch stage ran

ledgerVars == <<processed_emails, tracking_file, savesOk, lastOp>>
batchVars  == <<payments, batch_size, webhook_url, bpc, i, batches_sent,
                failed_batches, calls, response, batch_result>>
csvVars    == <<table, cpc, filtered_df, csv_payments, fn_call, fn_return, fnpc,
                download_folder, clock,
                downloaded_files, file_index, file_payments, flpc>>
runVars    == <<pc, mailbox, emails_with_downloads, k, downloaded, all_payments,
                errors, run_result, seen_flags, filesProcessed, raisedFor, noFilesFor,
                markedThisRun, ledgerAtFetch>>
runVars_but_pc == <<mailbox, emails_with_downloads, k, downloaded, all_payments,
                    errors, run_result, seen_flags, filesProcessed, raisedFor, noFilesFor,
                    markedThisRun, ledgerAtFetch>>
vars       == <<ledgerVars, batchVars, csvVars, runVars>>

-----------------------------------------------------------------------------
(* Bounds of the model *)

MaxEmailId == 3
MaxKeep == 3
MaxPayments == 3
MaxBatchSize == 3

EmailIds == 1..MaxEmailId

-----------------------------------------------------------------------------
(* Helpers for Python lists and sets *)

Range(s) == {s[n] : n \in 1..Len(s)}

Min2(a, b) == IF a <= b THEN a ELSE b
Max2(a, b) == IF a >= b THEN a ELSE b

\* Python's seq[start:stop] for integer start and stop (step 1).
PySlice(s, start, stop) ==
    LET n  == Len(s)
        lo == IF start < 0 THEN Max2(n + start, 0) ELSE Min2(start, n)
        hi == IF stop < 0 THEN Max2(n + stop, 0) ELSE Min2(stop, n)
    IN  IF lo >= hi THEN <<>> ELSE SubSeq(s, lo + 1, hi)

\* Python's seq[start:] .
PySliceFrom(s, start) == PySlice(s, start, Len(s))

\* sorted(S) for a finite set of integers.
RECURSIVE sorted(_)
sorted(S) ==
    IF S = {} THEN <<>>
    ELSE LET m == CHOOSE x \in S : \A y \in S : x <= y
         IN  <<m>> \o sorted(S \ {m})

\* list(S): the elements of a set, each once, in an order the runtime picks.
Orderings(S) ==
    {s \in [1..Cardinality(S) -> S] : \A a, b \in 1..Cardinality(S) : a # b => s[a] # s[b]}

Count(s, x) == Cardinality({n \in 1..Len(s) : s[n] = x})

-----------------------------------------------------------------------------
(* Cell values and texts, with the string operations the code applies       *)

\* A scalar as pandas hands it over: the missing marker NaN, a string, or a
\* number; None is Python's None. The text of a payment cell is a sequence of
\* characters; a cell of the filter column is compared as a whole and holds
\* its value undivided.
NaN      == [t |-> "nan",  v |-> <<>>]
None     == [t |-> "none", v |-> <<>>]
Str(x)   == [t |-> "str",  v |-> x]
Num(x)   == [t |-> "num",  v |-> x]

\* The characters of the model's texts. "No" stands for the numero sign, "EUR"
\* and "RUB" for the euro and the rouble sign (and in amounts "GBP" and "JPY"
\* for the pound and the yen sign), "cy_*" for Cyrillic letters
\* ("CY_S" is the capital of "cy_s").
Digits == <<"0", "1", "2", "3", "4", "5", "6", "7", "8", "9">>

DigitChars == {Digits[n] : n \in 1..Len(Digits)}

IsDigit(c) == c \in DigitChars

DigitValue(c) == (CHOOSE n \in 1..Len(Digits) : Digits[n] = c) - 1

AsciiLetters == {"A", "B", "C", "D", "I", "N",
                 "a", "b", "c", "d", "e", "i", "l", "n", "o", "u"}

IsAsciiLetter(c) == c \in AsciiLetters

CyrillicLetters == {"cy_s", "cy_ch", "cy_yo", "cy_e", "cy_t", "cy_o", "CY_S"}

Spaces == {" "}

IsSpace(c) == c \in Spaces

\* \w: letters, digits and the underscore.
IsWord(c) == IsDigit(c) \/ IsAsciiLetter(c) \/ c \in CyrillicLetters \/ c = "_"

\* str.lower, character by character.
lower_char(c) ==
    CASE c = "A" -> "a" [] c = "B" -> "b" [] c = "C" -> "c" [] c = "D" -> "d"
      [] c = "I" -> "i" [] c = "N" -> "n" [] c = "CY_S" -> "cy_s" [] OTHER -> c

lower(text) == [n \in 1..Len(text) |-> lower_char(text[n])]

\* The number of consecutive characters of a class from position p on.
RunLen(text, p, class) ==
    CHOOSE m \in 0..Max2(0, Len(text) - p + 1) :
        /\ \A j \in p..(p + m - 1) : text[j] \in class
        /\ (p + m > Len(text) \/ text[p + m] \notin class)

\* str.strip: leading and trailing whitespace removed.
strip(text) ==
    LET lead  == RunLen(text, 1, Spaces)
        rest  == SubSeq(text, lead + 1, Len(text))
        trail == CHOOSE m \in 0..Len(rest) :
                    /\ \A j \in (Len(rest) - m + 1)..Len(rest) : IsSpace(rest[j])
                    /\ (m = Len(rest) \/ ~IsSpace(rest[Len(rest) - m]))
    IN  SubSeq(rest, 1, Len(rest) - trail)

\* str.replace(symbol, '') for each of the symbols removed.
without_chars(text, symbols) ==
    LET keep(c) == c \notin symbols IN SelectSeq(text, keep)

\* str.replace(old, new) for single characters.
replace_char(text, old, new) ==
    [n \in 1..Len(text) |-> IF text[n] = old THEN new ELSE text[n]]

\* A digit part of a float literal: digits, single underscores between them.
IsDigitGroup(s) ==
    /\ s # <<>>
    /\ \A j \in 1..Len(s) :
          \/ IsDigit(s[j])
          \/ /\ s[j] = "_"
             /\ j > 1 /\ j < Len(s)
             /\ IsDigit(s[j - 1]) /\ IsDigit(s[j + 1])

\* float(text) succeeds: surrounding whitespace, a sign, and a decimal with at
\* least one digit (the characters of the model spell no exponent, inf or nan).
float_parses(text) ==
    LET body     == strip(text)
        unsigned == IF body # <<>> /\ Head(body) \in {"-", "+"} THEN Tail(body) ELSE body
        dots     == {j \in 1..Len(unsigned) : unsigned[j] = "."}
    IN  IF dots = {} THEN IsDigitGroup(unsigned)
        ELSE LET d == CHOOSE j \in dots : \A j2 \in dots : j <= j2
                 a == SubSeq(unsigned, 1, d - 1)
                 b == SubSeq(unsigned, d + 1, Len(unsigned))
             IN  /\ (a = <<>> \/ IsDigitGroup(a))
                 /\ (b = <<>> \/ IsDigitGroup(b))
                 /\ ~(a = <<>> /\ b = <<>>)

\* digits without its leading zeros
RECURSIVE without_leading_zeros(_)
without_leading_zeros(digits) ==
    IF digits # <<>> /\ Head(digits) = "0" THEN without_leading_zeros(Tail(digits))
    ELSE digits

\* digits without its trailing zeros
RECURSIVE without_trailing_zeros(_)
without_trailing_zeros(digits) ==
    IF digits # <<>> /\ digits[Len(digits)] = "0"
    THEN without_trailing_zeros(SubSeq(digits, 1, Len(digits) - 1))
    ELSE digits

\* The number float(text) reads from a text it parses, as sign, integer digits
\* and fraction digits: 007.50 and 7.5 are the same number, and so are -0 and
\* 0.  (The rounding of float to 53 bits is left out.)
float_value(text) ==
    LET body     == strip(text)
        unsigned == IF body # <<>> /\ Head(body) \in {"-", "+"} THEN Tail(body) ELSE body
        dots     == {j \in 1..Len(unsigned) : unsigned[j] = "."}
        d        == IF dots = {} THEN Len(unsigned) + 1
                    ELSE CHOOSE j \in dots : \A j2 \in dots : j <= j2
        int      == without_leading_zeros(
                        SelectSeq(SubSeq(unsigned, 1, d - 1), IsDigit))
        frac     == without_trailing_zeros(
                        SelectSeq(SubSeq(unsigned, d + 1, Len(unsigned)), IsDigit))
    IN  [neg  |-> (body # <<>> /\ Head(body) = "-" /\ (int # <<>> \/ frac # <<>>)),
         int  |-> int,
         frac |-> frac]

-----------------------------------------------------------------------------
(* EmailTracker: the processed-email ledger (email_tracking.py)             *)

\* What the tracking file can hold: nothing (the file is absent), text that is
\* not JSON, the prefix a crash during json.dump leaves, or the document
\* {"processed_email_ids": ids, "last_updated": ...}.
MissingFile   == [kind |-> "missing",   ids |-> <<>>]
MalformedFile == [kind |-> "malformed", ids |-> <<>>]
PartialFile   == [kind |-> "partial",   ids |-> <<>>]
JsonFile(ids) == [kind |-> "json",      ids |-> ids]

\* json.load(f): the document, or an exception (JSONDecodeError).
json_load(f) ==
    IF f.kind = "json" THEN [raised |-> FALSE, ids |-> f.ids]
    ELSE [raised |-> TRUE, ids |-> <<>>]

\* A load whose except clause is missing: the parse failure reaches the caller.
load_without_except(f) ==
    IF f.kind # "missing"
    THEN LET data == json_load(f)
         IN  IF data.raised THEN [raised |-> TRUE, value |-> {}]
             ELSE [raised |-> FALSE, value |-> Range(data.ids)]
    ELSE [raised |-> FALSE, value |-> {}]

\* EmailTracker._load_processed_emails
load_processed_emails(f) ==
    IF f.kind # "missing"                                  \* os.path.exists
    THEN LET data == json_load(f)
         IN  IF data.raised
             THEN [raised |-> FALSE, value |-> {}]         \* except Exception: return set()
             ELSE [raised |-> FALSE, value |-> Range(data.ids)]
    ELSE [raised |-> FALSE, value |-> {}]

\* The ways one persistence step can end: written; an exception before the file
\* was opened for writing (makedirs, open); an exception after open(..., 'w')
\* truncated it.  The exception is caught and logged in the last two.
SaveOutcomes == {"ok", "no_write", "partial_write"}

\* A persistence step that is deferred: nothing is written by the call.
save_deferred(f, S, outcome, order) == f

\* EmailTracker._save_processed_emails: order is list(self.processed_emails).
save_processed_emails(f, S, outcome, order) ==
    CASE outcome = "ok"            -> JsonFile(order)
      [] outcome = "no_write"      -> f
      [] outcome = "partial_write" -> PartialFile

\* EmailTracker.is_processed
is_processed(S, id) == id \in S

\* An insertion that is lost.
tracker_add_lost(S, id) == S

\* self.processed_emails.add(email_id)
tracker_add(S, id) == S \cup {id}

\* The set cleanup_old_entries leaves in memory.
cleanup_keep(S, keep_last_n) ==
    IF Cardinality(S) > keep_last_n
    THEN Range(PySliceFrom(sorted(S), 0 - keep_last_n))
    ELSE S

\* lastOp: op and arg name the call, pre is the in-memory set before it,
\* outcome how its persistence step ended ("none": it has none; for a load,
\* "clean" says that every persistence step of the tracker it replaces had
\* succeeded), raised whether the call raised, repeat whether the call before
\* it was the same mark_as_processed(arg).
NoOp == [op |-> "none", arg |-> 0, pre |-> {}, outcome |-> "none", raised |-> FALSE,
         repeat |-> FALSE]

\* EmailTracker.__init__: a new tracker on the same file (a new run, or the
\* restart after a crash).
TrackerInit ==
    LET r == load_processed_emails(tracking_file)
    IN  /\ processed_emails' = IF r.raised THEN processed_emails ELSE r.value
        /\ savesOk' = TRUE
        /\ lastOp' = [op |-> "load", arg |-> 0, pre |-> processed_emails,
                      outcome |-> IF savesOk THEN "clean" ELSE "dirty",
                      raised |-> r.raised, repeat |-> FALSE]
        /\ UNCHANGED tracking_file

\* A mark_as_processed whose persistence step lets its exception out.
TrackerMarkUnguarded(email_id, outcome, order) ==
    /\ processed_emails' = tracker_add(processed_emails, email_id)
    /\ order \in Orderings(processed_emails')
    /\ tracking_file' = save_processed_emails(tracking_file, processed_emails',
                                              outcome, order)
    /\ savesOk' = (savesOk /\ outcome = "ok")
    /\ lastOp' = [op |-> "mark", arg |-> email_id, pre |-> processed_emails,
                  outcome |-> outcome, raised |-> (outcome # "ok"),
                  repeat |-> (lastOp.op = "mark" /\ lastOp.arg = email_id)]

\* EmailTracker.mark_as_processed(email_id)
TrackerMark(email_id, outcome, order) ==
    /\ processed_emails' = tracker_add(processed_emails, email_id)
    /\ order \in Orderings(processed_emails')
    /\ tracking_file' = save_processed_emails(tracking_file, processed_emails',
                                              outcome, order)
    /\ savesOk' = (savesOk /\ outcome = "ok")
    /\ lastOp' = [op |-> "mark", arg |-> email_id, pre |-> processed_emails,
                  outcome |-> outcome, raised |-> FALSE,
                  repeat |-> (lastOp.op = "mark" /\ lastOp.arg = email_id)]

\* EmailTracker.cleanup_old_entries(keep_last_n)
TrackerCleanup(keep_last_n, outcome, order) ==
    /\ processed_emails' = cleanup_keep(processed_emails, keep_last_n)
    /\ order \in Orderings(processed_emails')
    /\ IF Cardinality(processed_emails) > keep_last_n
       THEN /\ tracking_file' = save_processed_emails(tracking_file, processed_emails',
                                                      outcome, order)
            /\ savesOk' = (savesOk /\ outcome = "ok")
            /\ lastOp' = [op |-> "cleanup", arg |-> keep_last_n, pre |-> processed_emails,
                          outcome |-> outcome, raised |-> FALSE, repeat |-> FALSE]
       ELSE /\ UNCHANGED <<tracking_file, savesOk>>
            /\ lastOp' = [op |-> "cleanup", arg |-> keep_last_n, pre |-> processed_emails,
                          outcome |-> "none", raised |-> FALSE, repeat |-> FALSE]

\* The files a tracker can find at start-up: what earlier runs left.
InitialFiles ==
    {MissingFile, MalformedFile, PartialFile}
        \cup {JsonFile(o) : o \in UNION {Orderings(S) : S \in SUBSET EmailIds}}

LedgerInit ==
    /\ tracking_file \in InitialFiles
    /\ processed_emails = load_processed_emails(tracking_file).value
    /\ savesOk = TRUE
    /\ lastOp = NoOp

-----------------------------------------------------------------------------
(* WebhookSender (webhook_sender.py)                                        *)

\* A payment record as send_webhook reads it: amount is the record's "amount"
\* (None or a text); date is the record's "date" (None, a value dateutil
\* parses, or a text it rejects); extra says that raw_data holds one of the
\* additional fields (description, reference, ...) with a value that is not
\* None; email is the message it was extracted from (0: not tracked).
Payment(id, amount, date, extra, email) ==
    [id |-> id, amount |-> amount, date |-> date, extra |-> extra, email |-> email]

DateValues == {"null", "parseable", "unparseable"}

\* WebhookSender._format_date: None for None, the ISO form of a date that
\* parses, and otherwise the text itself (which is not empty).
format_date(date_value) ==
    CASE date_value = "null"        -> "null"
      [] date_value = "parseable"   -> "iso"
      [] date_value = "unparseable" -> "raw"

\* The symbols _format_amount removes from the amount before float().
FormatSymbols == {"$", "EUR", "RUB"}

\* WebhookSender._format_amount: None, or the number float() reads from the
\* text; a number without fraction digits is the int, any other the float.
format_amount(amount) ==
    IF amount = None THEN None
    ELSE LET amount_str == strip(without_chars(replace_char(amount.v, ",", "."),
                                               FormatSymbols))
         IN  IF float_parses(amount_str) THEN Num(float_value(amount_str)) ELSE None

\* The currency_map of _extract_currency, in the order of the dict ("GBP" and
\* "JPY" as characters stand for the pound and the yen sign).
currency_map ==
    << [symbol |-> "$",   code |-> "USD"], [symbol |-> "EUR", code |-> "EUR"],
       [symbol |-> "RUB", code |-> "RUB"], [symbol |-> "GBP", code |-> "GBP"],
       [symbol |-> "JPY", code |-> "JPY"] >>

\* The return value for an amount that is None.
CurrencyOfNone == "USD"

\* WebhookSender._extract_currency: the code of the first symbol of the map
\* that occurs in str(amount).
extract_currency(amount) ==
    IF amount = None THEN CurrencyOfNone
    ELSE LET found == {n \in 1..Len(currency_map) :
                          \E j \in 1..Len(amount.v) : amount.v[j] = currency_map[n].symbol}
         IN  IF found = {} THEN "RUB"
             ELSE currency_map[CHOOSE n \in found : \A m \in found : n <= m].code

\* WebhookSender.format_payment_data: writing an additional field into
\* formatted_payment["metadata"], a key never created, raises KeyError; the
\* except clause returns the empty error payload.
format_payment_data(chunk) ==
    IF \E n \in 1..Len(chunk) : chunk[n].extra
    THEN [payments_count |-> 0, payments |-> <<>>, error |-> TRUE]
    ELSE [payments_count |-> Len(chunk),
          payments |-> [n \in 1..Len(chunk) |->
                          [id |-> chunk[n].id,
                           amount |-> format_amount(chunk[n].amount),
                           date |-> format_date(chunk[n].date)]],
          error |-> FALSE]

\* What session.post can do: answer with a status code, or raise.
Responses == {"200", "201", "202", "204", "500", "timeout", "connection_error"}

\* A check that takes every outcome of the request for a success.
SuccessStatusesAll == Responses

\* response.status_code in [200, 201, 202]
SuccessStatuses == {"200", "201", "202"}

\* WebhookSender.send_webhook: the return value, whether session.post was
\* called, and the payload it was called with.
send_webhook(chunk, url_set, answer) ==
    LET payload == format_payment_data(chunk)
        none    == [payments_count |-> 0, payments |-> <<>>, error |-> FALSE]
    IN  IF ~url_set
        THEN [ret |-> FALSE, posted |-> FALSE, payload |-> none]
        ELSE IF chunk = <<>>
        THEN [ret |-> TRUE, posted |-> FALSE, payload |-> none]
        \* the logging loop: 'T' in date_str raises TypeError for a None date
        ELSE IF \E n \in 1..Len(payload.payments) : payload.payments[n].date = "null"
        THEN [ret |-> FALSE, posted |-> FALSE, payload |-> none]
        ELSE [ret |-> answer \in SuccessStatuses, posted |-> TRUE,
              payload |-> payload]

\* Membership of i in range(0, stop, step), for step # 0.
range_has(n, stop, step) ==
    IF step > 0 THEN n < stop ELSE n > stop

\* A slice that is one element too long.
batch_at_overlapping(p, n, size) == PySlice(p, n, n + size + 1)

\* batch = payments[i:i + batch_size]
batch_at(p, n, size) == PySlice(p, n, n + size)

\* A loop that sends a failed chunk again.
loop_next_retry(n, step, ret) == IF ret THEN n + step ELSE n

\* The next value of the for loop's variable: it does not depend on the outcome.
loop_next(n, step, ret) == n + step

\* A flag that is set as soon as one chunk was delivered.
batch_success_any(sent, failed) == sent > 0

\* "success": failed_batches == 0
batch_success(sent, failed) == failed = 0

NoResult == [success |-> FALSE, total_payments |-> 0, batches_sent |-> 0,
             failed_batches |-> 0, error |-> FALSE, returned |-> FALSE]

\* send_webhook_batch up to the loop: the empty list returns at once, and
\* range() raises ValueError for a step of 0, which the except clause turns
\* into a result.
BatchEnter ==
    /\ bpc = "call"
    /\ IF payments = <<>>
       THEN /\ batch_result' = [success |-> TRUE, total_payments |-> 0,
                                batches_sent |-> 0, failed_batches |-> 0,
                                error |-> FALSE, returned |-> TRUE]
            /\ bpc' = "done"
       ELSE IF batch_size = 0
       THEN /\ batch_result' = [success |-> FALSE, total_payments |-> Len(payments),
                                batches_sent |-> 0, failed_batches |-> 0,
                                error |-> TRUE, returned |-> TRUE]
            /\ bpc' = "done"
       ELSE /\ bpc' = "loop"
            /\ UNCHANGED batch_result
    /\ i' = 0
    /\ batches_sent' = 0
    /\ failed_batches' = 0
    /\ UNCHANGED <<payments, batch_size, webhook_url, calls, response>>

\* One iteration of the loop.
BatchIter ==
    /\ bpc = "loop"
    /\ range_has(i, Len(payments), batch_size)
    /\ \E answer \in Responses :
         \E r \in {send_webhook(batch_at(payments, i, batch_size), webhook_url, answer)} :
             /\ response' = (IF r.posted THEN answer ELSE "none")
             /\ calls' = Append(calls, [chunk |-> batch_at(payments, i, batch_size),
                                        ret |-> r.ret, posted |-> r.posted,
                                        payload |-> r.payload])
             /\ batches_sent' = IF r.ret THEN batches_sent + 1 ELSE batches_sent
             /\ failed_batches' = IF r.ret THEN failed_batches ELSE failed_batches + 1
             /\ i' = loop_next(i, batch_size, r.ret)
    /\ UNCHANGED <<payments, batch_size, webhook_url, bpc, batch_result>>

\* After the loop: the result dict.
BatchReturn ==
    /\ bpc = "loop"
    /\ ~range_has(i, Len(payments), batch_size)
    /\ batch_result' = [success |-> batch_success(batches_sent, failed_batches),
                        total_payments |-> Len(payments),
                        batches_sent |-> batches_sent,
                        failed_batches |-> failed_batches,
                        error |-> FALSE, returned |-> TRUE]
    /\ bpc' = "done"
    /\ UNCHANGED <<payments, batch_size, webhook_url, i, batches_sent,
                   failed_batches, calls, response>>

\* The payment lists of the dispatch specification: payment n has id n.
PlainAmount == Str(<<"1", "0", "0">>)

\* The kinds of payment in the lists: a complete one, one without a date, one
\* with a date that does not parse, one without an amount, one with an amount
\* that does not parse, and one whose row has an additional field.
PaymentShapes ==
    { <<PlainAmount, "parseable", FALSE>>, <<PlainAmount, "null", FALSE>>,
      <<PlainAmount, "unparseable", FALSE>>, <<None, "parseable", FALSE>>,
      <<Str(<<"a">>), "parseable", FALSE>>, <<PlainAmount, "parseable", TRUE>> }

PaymentLists ==
    UNION {[1..n -> PaymentShapes] : n \in 0..MaxPayments}

ListOf(shape) ==
    [n \in 1..Len(shape) |-> Payment(n, shape[n][1], shape[n][2], shape[n][3], 0)]

BatchSizes == (0 - 1)..MaxBatchSize

BatchInit ==
    /\ \E shape \in PaymentLists : payments = ListOf(shape)
    /\ batch_size \in BatchSizes
    /\ webhook_url \in BOOLEAN
    /\ bpc = "call"
    /\ i = 0
    /\ batches_sent = 0
    /\ failed_batches = 0
    /\ calls = <<>>
    /\ response = "none"
    /\ batch_result = NoResult

BatchIdle ==
    /\ payments = <<>>
    /\ batch_size = 1
    /\ webhook_url = TRUE
    /\ bpc = "idle"
    /\ i = 0
    /\ batches_sent = 0
    /\ failed_batches = 0
    /\ calls = <<>>
    /\ response = "none"
    /\ batch_result = NoResult

LedgerIdle ==
    /\ tracking_file = MissingFile
    /\ processed_emails = {}
    /\ savesOk = TRUE
    /\ lastOp = NoOp

\* No field function was called.
FieldsIdle ==
    /\ fn_call = [fn |-> "none"]
    /\ fn_return = "none"
    /\ fnpc = "idle"

TableIdle ==
    /\ table = [readable |-> FALSE, columns |-> {}, rows |-> <<>>]
    /\ cpc = "idle"
    /\ filtered_df = <<>>
    /\ csv_payments = <<>>

\* process_downloaded_files was not called.
FilesIdle ==
    /\ downloaded_files = <<>>
    /\ file_index = 0
    /\ file_payments = <<>>
    /\ flpc = "idle"

\* No download is being waited for.
FolderIdle ==
    /\ download_folder = {}
    /\ clock = 0

CsvIdle == TableIdle /\ FieldsIdle /\ FilesIdle /\ FolderIdle

RunIdle ==
    /\ pc = "idle"
    /\ mailbox = <<>>
    /\ emails_with_downloads = <<>>
    /\ k = 0
    /\ downloaded = FALSE
    /\ all_payments = <<>>
    /\ errors = <<>>
    /\ run_result = "none"
    /\ seen_flags = {}
    /\ filesProcessed = {}
    /\ raisedFor = {}
    /\ noFilesFor = {}
    /\ markedThisRun = {}
    /\ ledgerAtFetch = {}

-----------------------------------------------------------------------------
(* SpecLedger: the EmailTracker operations, in any order                    *)

NewTracker ==
    /\ TrackerInit
    /\ UNCHANGED <<batchVars, csvVars, runVars>>

MarkAsProcessed ==
    /\ \E email_id \in EmailIds, outcome \in SaveOutcomes :
         \E order \in Orderings(tracker_add(processed_emails, email_id)) :
            TrackerMark(email_id, outcome, order)
    /\ UNCHANGED <<batchVars, csvVars, runVars>>

CleanupOldEntries ==
    /\ \E keep_last_n \in 0..MaxKeep, outcome \in SaveOutcomes :
         \E order \in Orderings(cleanup_keep(processed_emails, keep_last_n)) :
            TrackerCleanup(keep_last_n, outcome, order)
    /\ UNCHANGED <<batchVars, csvVars, runVars>>

InitLedger == LedgerInit /\ BatchIdle /\ CsvIdle /\ RunIdle

NextLedger == NewTracker \/ MarkAsProcessed \/ CleanupOldEntries

SpecLedger == InitLedger /\ [][NextLedger]_vars

-----------------------------------------------------------------------------
(* SpecBatch: one call of send_webhook_batch                                *)

SendBatchEnter  == BatchEnter  /\ UNCHANGED <<ledgerVars, csvVars, runVars>>
SendBatchIter   == BatchIter   /\ UNCHANGED <<ledgerVars, csvVars, runVars>>
SendBatchReturn == BatchReturn /\ UNCHANGED <<ledgerVars, csvVars, runVars>>

InitBatch == BatchInit /\ LedgerIdle /\ CsvIdle /\ RunIdle

NextBatch == SendBatchEnter \/ SendBatchIter \/ SendBatchReturn

SpecBatch == InitBatch /\ [][NextBatch]_vars

-----------------------------------------------------------------------------
(* FileProcessor.process_csv_file (file_processor.py)                       *)

MaxRows == 3

\* config.processing (config.py): the column names and the filter.
csv_filter_column     == "status"
csv_filter_value      == "completed"
payment_amount_column == "amount"
payment_date_column   == "date"
payment_id_column     == "transaction_id"
customer_id_column    == "customer_id"

AllColumns == {csv_filter_column, payment_amount_column, payment_date_column,
               payment_id_column, customer_id_column}

\* The strings _clean_value takes for a missing value.
NullWords == {<<"n", "u", "l", "l">>, <<"n", "o", "n", "e">>, <<"n", "/", "a">>}

\* FileProcessor._clean_value
clean_value(value) ==
    IF value.t = "nan" THEN None
    ELSE IF value.t = "str"
    THEN LET v == strip(value.v)
         IN  IF v = <<>> \/ lower(v) \in NullWords THEN None ELSE Str(v)
    ELSE value

\* Python's integers have no upper limit; the values of the model saturate
\* above every number the code compares with.
MaxInt == 10000

\* int(num_str)
RECURSIVE int_of(_)
int_of(digits) ==
    IF digits = <<>> THEN 0
    ELSE Min2(MaxInt, int_of(SubSeq(digits, 1, Len(digits) - 1)) * 10
                          + DigitValue(digits[Len(digits)]))

\* re.search: the leftmost match, or the empty text for no match. ends[p] is
\* the position after the match that starts at p, or 0.
re_search(text, ends) ==
    LET starts == {p \in 1..Len(text) : ends[p] # 0}
    IN  IF starts = {} THEN <<>>
        ELSE LET p == CHOOSE q \in starts : \A q2 \in starts : q <= q2
             IN  SubSeq(text, p, ends[p] - 1)

\* [Cc][-_]?\d{6,} at position p
contract_end(text, p) ==
    IF text[p] \in {"C", "c"}
    THEN LET q == IF p + 1 <= Len(text) /\ text[p + 1] \in {"-", "_"}
                  THEN p + 2 ELSE p + 1
             d == RunLen(text, q, DigitChars)
         IN  IF d >= 6 THEN q + d ELSE 0
    ELSE 0

\* [A-Za-z]{2,5}[-_]?\d{4,} at position p: the letters are followed by the
\* separator or a digit, so the run of letters from p is 2 to 5 long.
ref_end(text, p) ==
    LET letters == RunLen(text, p, AsciiLetters)
    IN  IF letters >= 2 /\ letters <= 5
        THEN LET q0 == p + letters
                 q  == IF q0 <= Len(text) /\ text[q0] \in {"-", "_"}
                       THEN q0 + 1 ELSE q0
                 d  == RunLen(text, q, DigitChars)
             IN  IF d >= 4 THEN q + d ELSE 0
        ELSE 0

contract_ends(text) == [p \in 1..Len(text) |-> contract_end(text, p)]

ref_ends(text) == [p \in 1..Len(text) |-> ref_end(text, p)]

\* The label alternatives of rule 3, in the order of the pattern.
Labels == << <<"cy_s", "cy_ch", "cy_yo", "cy_t">>, <<"cy_s", "cy_ch", "cy_e", "cy_t">>,
             <<"No">>, <<"#">>, <<"I", "D">>, <<"i", "d">> >>

\* A label at position p, compared without case (re.IGNORECASE).
label_len(text, p) ==
    LET fits == {n \in 1..Len(Labels) :
                    /\ p + Len(Labels[n]) - 1 <= Len(text)
                    /\ lower(SubSeq(text, p, p + Len(Labels[n]) - 1)) = lower(Labels[n])}
    IN  IF fits = {} THEN 0
        ELSE Len(Labels[CHOOSE n \in fits : \A n2 \in fits : n <= n2])

\* (?:label)\s*[No#]?\s*(\d{4,}) at position p: where the digits start and how
\* many there are, or a count of 0 for no match.
labelled_at(text, p) ==
    LET l == label_len(text, p)
    IN  IF l = 0 THEN [from |-> 0, count |-> 0]
        ELSE LET q1 == p + l + RunLen(text, p + l, Spaces)
                 q2 == IF q1 <= Len(text) /\ text[q1] \in {"No", "#"} THEN q1 + 1 ELSE q1
                 q3 == q2 + RunLen(text, q2, Spaces)
                 d  == RunLen(text, q3, DigitChars)
             IN  IF d >= 4 THEN [from |-> q3, count |-> d] ELSE [from |-> 0, count |-> 0]

\* re.findall of rule 3: the captured digit runs of the matches, left to
\* right, each match starting after the previous one.
RECURSIVE labelled_numbers(_, _)
labelled_numbers(text, p) ==
    IF p > Len(text) THEN <<>>
    ELSE LET m == labelled_at(text, p)
         IN  IF m.count = 0 THEN labelled_numbers(text, p + 1)
             ELSE <<SubSeq(text, m.from, m.from + m.count - 1)>>
                      \o labelled_numbers(text, m.from + m.count)

\* \b\d{4,}\b at position p: a whole run of digits between word boundaries.
bare_count(text, p) ==
    LET d == RunLen(text, p, DigitChars)
    IN  IF /\ d >= 4
           /\ (p = 1 \/ ~IsWord(text[p - 1]))
           /\ (p + d > Len(text) \/ ~IsWord(text[p + d]))
        THEN d ELSE 0

\* re.findall of rule 4
RECURSIVE bare_numbers(_, _)
bare_numbers(text, p) ==
    IF p > Len(text) THEN <<>>
    ELSE LET d == bare_count(text, p)
         IN  IF d = 0 THEN bare_numbers(text, p + 1)
             ELSE <<SubSeq(text, p, p + d - 1)>> \o bare_numbers(text, p + d)

MinPaymentId == 2400
ExcludedPaymentId == 8000

\* num >= 2400 and num != 8000
number_accepted(num) == num >= MinPaymentId /\ num # ExcludedPaymentId

\* The for loop over the numbers found: the first one accepted, or the empty
\* text.
RECURSIVE first_accepted(_)
first_accepted(numbers) ==
    IF numbers = <<>> THEN <<>>
    ELSE IF number_accepted(int_of(Head(numbers))) THEN Head(numbers)
    ELSE first_accepted(Tail(numbers))

\* re.sub(r'[^\w\s-]', '', text)[:8]
cleaned_text(text) ==
    LET keep(c) == IsWord(c) \/ IsSpace(c) \/ c = "-"
    IN  PySlice(SelectSeq(text, keep), 0, 8)

Sentinel == <<"-">>

\* A chain that tries the bare numbers before the patterns.
extract_payment_id_digits_first(value) ==
    IF value.t \in {"nan", "none"} THEN Sentinel
    ELSE LET text == strip(value.v)
         IN  IF text = <<>> THEN Sentinel
             ELSE IF first_accepted(bare_numbers(text, 1)) # <<>>
             THEN first_accepted(bare_numbers(text, 1))
             ELSE IF re_search(text, contract_ends(text)) # <<>>
             THEN re_search(text, contract_ends(text))
             ELSE Sentinel

\* FileProcessor._extract_payment_id
extract_payment_id(value) ==
    IF value.t \in {"nan", "none"} THEN Sentinel
    ELSE LET text == strip(value.v)
         IN  IF text = <<>> THEN Sentinel
             ELSE IF re_search(text, contract_ends(text)) # <<>>
             THEN re_search(text, contract_ends(text))
             ELSE IF re_search(text, ref_ends(text)) # <<>>
             THEN re_search(text, ref_ends(text))
             ELSE IF first_accepted(labelled_numbers(text, 1)) # <<>>
             THEN first_accepted(labelled_numbers(text, 1))
             ELSE IF first_accepted(bare_numbers(text, 1)) # <<>>
             THEN first_accepted(bare_numbers(text, 1))
             ELSE IF cleaned_text(text) # <<>> /\ cleaned_text(text) # text
             THEN cleaned_text(text)
             ELSE Sentinel

\* A validation that keeps the thousands separator.
ValidationSymbolsKeepComma == {"$", "EUR", "RUB"}

\* The symbols _is_valid_payment removes from the amount before float().
ValidationSymbols == {",", "$", "EUR", "RUB"}

\* FileProcessor._is_valid_payment
is_valid_payment(payment) ==
    /\ ~(payment.amount = None \/ payment.amount = Str(<<>>))
    /\ ~(payment.transaction_id = None \/ payment.transaction_id = Str(<<>>))
    /\ float_parses(without_chars(payment.amount.v, ValidationSymbols))

\* A filter with inclusion semantics: it keeps the rows it should drop.
row_kept_inclusion(cell, value) == cell = Str(value)

\* One element of df[filter_column] != filter_value: the comparison is by
\* value and type, and NaN differs from everything.
row_kept(cell, value) == cell # Str(value)

\* filtered_df: the indices of the rows the filter keeps, in table order.
RECURSIVE filter_rows(_, _, _)
filter_rows(rows, n, columns) ==
    IF n > Len(rows) THEN <<>>
    ELSE IF csv_filter_column \in columns
    THEN (IF row_kept(rows[n][csv_filter_column], csv_filter_value) THEN <<n>> ELSE <<>>)
             \o filter_rows(rows, n + 1, columns)
    ELSE <<n>> \o filter_rows(rows, n + 1, columns)

\* A field that is left empty when the table has no id column.
transaction_id_field_blank(column_present, cell) ==
    IF column_present THEN extract_payment_id(cell) ELSE <<>>

\* The transaction_id field of a payment: the extraction from the id cell, or
\* the dash when the table has no id column.
transaction_id_field(column_present, cell) ==
    IF column_present THEN extract_payment_id(cell) ELSE Sentinel

\* A payment dict that takes the column name for the value of a column the
\* table lacks.
payment_of_row_named(rows, n, columns) ==
    LET row == rows[n]
        field(col) == IF col \in columns THEN clean_value(row[col]) ELSE Str(<<col>>)
    IN  [row            |-> n,
         amount         |-> field(payment_amount_column),
         date           |-> field(payment_date_column),
         transaction_id |-> Str(transaction_id_field(payment_id_column \in columns,
                                                     row[payment_id_column])),
         customer_id    |-> field(customer_id_column)]

\* The payment dict built from one row.
payment_of_row(rows, n, columns) ==
    LET row == rows[n]
        field(col) == IF col \in columns THEN clean_value(row[col]) ELSE None
    IN  [row            |-> n,
         amount         |-> field(payment_amount_column),
         date           |-> field(payment_date_column),
         transaction_id |-> Str(transaction_id_field(payment_id_column \in columns,
                                                     row[payment_id_column])),
         customer_id    |-> field(customer_id_column)]

\* The loop over filtered_df.iterrows(): the valid payments, in order.
RECURSIVE extract_payments(_, _, _)
extract_payments(rows, kept, columns) ==
    IF kept = <<>> THEN <<>>
    ELSE LET payment == payment_of_row(rows, Head(kept), columns)
         IN  (IF is_valid_payment(payment) THEN <<payment>> ELSE <<>>)
                 \o extract_payments(rows, Tail(kept), columns)

\* The value process_csv_file returns: a file neither separator parses raises
\* in read_csv, and the except clause returns the empty list.
process_csv_file(file) ==
    IF file.readable
    THEN extract_payments(file.rows, filter_rows(file.rows, 1, file.columns),
                          file.columns)
    ELSE <<>>

ProcessCsvFile ==
    /\ cpc = "call"
    /\ filtered_df' = IF table.readable
                      THEN filter_rows(table.rows, 1, table.columns)
                      ELSE <<>>
    /\ csv_payments' = process_csv_file(table)
    /\ cpc' = "done"
    /\ UNCHANGED <<table, fn_call, fn_return, fnpc, download_folder, clock,
                   downloaded_files, file_index,
                   file_payments, flpc>>

\* The cells of the model's tables.
StatusCells == {Str("completed"), Str("pending"), NaN}
AmountCells == {Str(<<"1", "0", "0">>), Str(<<"a", "b", "c">>), NaN}

RowValues ==
    {[c \in AllColumns |->
        CASE c = csv_filter_column     -> st
          [] c = payment_amount_column -> am
          [] c = payment_date_column   -> Str(<<"2", "0", "2", "5">>)
          [] c = payment_id_column     -> Str(<<"C", "_", "5", "1", "6", "9", "1", "3">>)
          [] c = customer_id_column    -> Str(<<"A", "B">>)] :
     st \in StatusCells, am \in AmountCells}

\* The tables have every configured column, or all but one.
ColumnSets == {AllColumns} \cup {AllColumns \ {c} : c \in AllColumns}

CsvInit ==
    /\ \E readable \in BOOLEAN, columns \in ColumnSets, n \in 0..MaxRows :
         \E rows \in [1..n -> RowValues] :
            table = [readable |-> readable, columns |-> columns, rows |-> rows]
    /\ cpc = "call"
    /\ filtered_df = <<>>
    /\ csv_payments = <<>>
    /\ FieldsIdle
    /\ FilesIdle
    /\ FolderIdle

-----------------------------------------------------------------------------
(* SpecCsv: one call of process_csv_file                                    *)

ProcessFile == ProcessCsvFile /\ UNCHANGED <<ledgerVars, batchVars, runVars>>

InitCsv == CsvInit /\ LedgerIdle /\ BatchIdle /\ RunIdle

NextCsv == ProcessFile

SpecCsv == InitCsv /\ [][NextCsv]_vars

-----------------------------------------------------------------------------
(* SpecFields: one call of a field function, on texts put together from     *)
(* pieces                                                                   *)

MaxPieces == 3

\* The pieces of an id cell: the parts of a contract number, numbers on both
\* sides of the threshold and the excluded one, letters, labels, blanks and
\* punctuation.
IdPieces ==
    { <<"C">>, <<"_">>, <<"5", "1", "6", "9", "1", "3">>, <<"2", "4", "9", "7">>,
      <<"8", "0", "0", "0">>, <<"2", "3", "9", "9">>, <<"A", "B">>, <<"I", "D">>,
      <<"A", "B", "C", "D", "I", "N">>, <<"CY_S", "cy_ch", "cy_yo", "cy_t">>,
      <<"No">>, <<" ">>, <<"!">>, <<"-">>, <<"cy_o">> }

\* The pieces of an amount cell.
AmountPieces ==
    { <<"1", ",", "2", "3", "4">>, <<".", "5", "6">>, <<"1", "0", "0">>, <<",">>,
      <<".">>, <<"$">>, <<"RUB">>, <<" ">>, <<"-">>, <<"a">> }

RECURSIVE Flatten(_)
Flatten(ss) == IF ss = <<>> THEN <<>> ELSE Head(ss) \o Flatten(Tail(ss))

TextsOf(pieces) ==
    {Flatten(ps) : ps \in UNION {[1..n -> pieces] : n \in 0..MaxPieces}}

\* The cells read_csv can hand over for a column, and Python's None.
CellsOf(pieces) == {NaN, None} \cup {Str(text) : text \in TextsOf(pieces)}

\* The pieces of an amount with a currency sign.
CurrencyPieces ==
    { <<"1", "0", "0">>, <<"$">>, <<"EUR">>, <<"RUB">>, <<"GBP">>, <<"JPY">>,
      <<" ">>, <<"a">> }

\* The transaction_id values of a candidate record.
CandidateIds == {None, Str(<<>>), Str(Sentinel), Str(<<"2", "4", "9", "7">>)}

FieldsInit ==
    /\ \/ \E present \in BOOLEAN, cell \in CellsOf(IdPieces) :
             fn_call = [fn |-> "transaction_id", present |-> present, cell |-> cell]
       \/ \E amount \in CellsOf(AmountPieces) \ {NaN}, tid \in CandidateIds :
             fn_call = [fn |-> "_is_valid_payment",
                        payment |-> [amount |-> amount, transaction_id |-> tid]]
       \/ \E amount \in CellsOf(AmountPieces) \ {NaN} :
             fn_call = [fn |-> "_format_amount", amount |-> amount]
       \/ \E amount \in CellsOf(CurrencyPieces) \ {NaN} :
             fn_call = [fn |-> "_extract_currency", amount |-> amount]
    /\ fn_return = "none"
    /\ fnpc = "call"

\* The transaction_id field of process_csv_file for one cell.
CallTransactionId ==
    /\ fnpc = "call"
    /\ fn_call.fn = "transaction_id"
    /\ fn_return' = transaction_id_field(fn_call.present, fn_call.cell)
    /\ fnpc' = "done"
    /\ UNCHANGED <<fn_call, download_folder, clock, table, cpc, filtered_df,
                   csv_payments, downloaded_files,
                   file_index, file_payments, flpc, ledgerVars, batchVars, runVars>>

\* _is_valid_payment for one candidate record.
CallIsValidPayment ==
    /\ fnpc = "call"
    /\ fn_call.fn = "_is_valid_payment"
    /\ fn_return' = is_valid_payment(fn_call.payment)
    /\ fnpc' = "done"
    /\ UNCHANGED <<fn_call, download_folder, clock, table, cpc, filtered_df,
                   csv_payments, downloaded_files,
                   file_index, file_payments, flpc, ledgerVars, batchVars, runVars>>

\* _format_amount for the amount of one payment record.
CallFormatAmount ==
    /\ fnpc = "call"
    /\ fn_call.fn = "_format_amount"
    /\ fn_return' = format_amount(fn_call.amount)
    /\ fnpc' = "done"
    /\ UNCHANGED <<fn_call, download_folder, clock, table, cpc, filtered_df,
                   csv_payments, downloaded_files,
                   file_index, file_payments, flpc, ledgerVars, batchVars, runVars>>

\* _extract_currency for the amount of one payment record.
CallExtractCurrency ==
    /\ fnpc = "call"
    /\ fn_call.fn = "_extract_currency"
    /\ fn_return' = extract_currency(fn_call.amount)
    /\ fnpc' = "done"
    /\ UNCHANGED <<fn_call, download_folder, clock, table, cpc, filtered_df,
                   csv_payments, downloaded_files,
                   file_index, file_payments, flpc, ledgerVars, batchVars, runVars>>

InitFields ==
    FieldsInit /\ TableIdle /\ FilesIdle /\ FolderIdle /\ LedgerIdle /\ BatchIdle /\ RunIdle

NextFields ==
    CallTransactionId \/ CallIsValidPayment \/ CallFormatAmount \/ CallExtractCurrency

SpecFields == InitFields /\ [][NextFields]_vars

-----------------------------------------------------------------------------
(* EmailProcessor.process_downloaded_files (main.py) with                   *)
(* FileProcessor.extract_archive and process_all_csv_files                  *)

MaxFiles == 3

MaxFolder == 2

FileRow(status, amount, id) ==
    [c \in AllColumns |->
        CASE c = csv_filter_column     -> Str(status)
          [] c = payment_amount_column -> Str(amount)
          [] c = payment_date_column   -> Str(<<"2", "0", "2", "5">>)
          [] c = payment_id_column     -> Str(id)
          [] c = customer_id_column    -> Str(<<"A", "B">>)]

\* The CSV files of the model: one with a row the filter drops and a payment,
\* and one that read_csv cannot parse.
CsvTables ==
    { [readable |-> TRUE, columns |-> AllColumns,
       rows |-> <<FileRow("completed", <<"1", "0", "0">>, <<"2", "4", "9", "7">>),
                  FileRow("pending", <<"5">>, <<"2", "4", "9", "7">>)>>],
      [readable |-> FALSE, columns |-> AllColumns,
       rows |-> <<FileRow("pending", <<"1", "0", "0">>, <<"2", "4", "9", "7">>)>>] }

\* A downloaded file: a CSV file, an archive (that extracts to a folder of CSV
\* files, or does not extract), or a file of another type.
DownloadedFiles ==
    {[kind |-> "csv", csv |-> t] : t \in CsvTables}
        \cup {[kind |-> "archive", extracts |-> TRUE, folder |-> f] :
                 f \in UNION {[1..n -> CsvTables] : n \in 0..MaxFolder}}
        \cup {[kind |-> "archive", extracts |-> FALSE, folder |-> <<>>],
              [kind |-> "other"]}

\* What process_csv_file returns for each CSV file of the model.
csv_file_payments == [file \in CsvTables |-> process_csv_file(file)]

\* FileProcessor.process_all_csv_files: the loop over the CSV files found in
\* the folder.
RECURSIVE process_all_csv_files(_)
process_all_csv_files(folder) ==
    IF folder = <<>> THEN <<>>
    ELSE csv_file_payments[Head(folder)] \o process_all_csv_files(Tail(folder))

\* The CSV files one iteration of process_downloaded_files reads: those found
\* in the folder of an archive that extract_archive extracted, the file itself
\* when it is a CSV file, none for an archive that failed to extract or a file
\* of another type.
csv_files_of(file) ==
    CASE file.kind = "archive" -> (IF file.extracts THEN file.folder ELSE <<>>)
      [] file.kind = "csv"     -> <<file.csv>>
      [] OTHER                 -> <<>>

\* The payments one iteration of process_downloaded_files adds for a file;
\* process_csv_file on a CSV file gives what the loop of process_all_csv_files
\* gives on that one file.
payments_of_file(file) == process_all_csv_files(csv_files_of(file))

\* A loop that stops at a file that gave nothing.
next_file_stop(n, added) == IF added = <<>> THEN n + MaxFiles + 1 ELSE n + 1

\* The for loop over downloaded_files goes to the next file whatever the
\* current one gave.
next_file(n, added) == n + 1

FilesInit ==
    /\ \E n \in 0..MaxFiles : downloaded_files \in [1..n -> DownloadedFiles]
    /\ file_index = 1
    /\ file_payments = <<>>
    /\ flpc = "loop"

\* One iteration of the loop of process_downloaded_files.
FilesIter ==
    /\ flpc = "loop"
    /\ file_index <= Len(downloaded_files)
    /\ \E added \in {payments_of_file(downloaded_files[file_index])} :
          /\ file_payments' = file_payments \o added
          /\ file_index' = next_file(file_index, added)
    /\ UNCHANGED <<downloaded_files, flpc>>

\* return all_payments
FilesReturn ==
    /\ flpc = "loop"
    /\ file_index > Len(downloaded_files)
    /\ flpc' = "done"
    /\ UNCHANGED <<downloaded_files, file_index, file_payments>>

-----------------------------------------------------------------------------
(* SpecFiles: one call of process_downloaded_files                          *)

ProcessFilesIter ==
    /\ FilesIter
    /\ UNCHANGED <<table, cpc, filtered_df, csv_payments, fn_call, fn_return, fnpc,
                   download_folder, clock,
                   ledgerVars, batchVars, runVars>>

ProcessFilesReturn ==
    /\ FilesReturn
    /\ UNCHANGED <<table, cpc, filtered_df, csv_payments, fn_call, fn_return, fnpc,
                   download_folder, clock,
                   ledgerVars, batchVars, runVars>>

InitFiles ==
    FilesInit /\ TableIdle /\ FieldsIdle /\ FolderIdle /\ LedgerIdle /\ BatchIdle /\ RunIdle

NextFiles == ProcessFilesIter \/ ProcessFilesReturn

SpecFiles == InitFiles /\ [][NextFiles]_vars

-----------------------------------------------------------------------------
(* calculate_next_run_time (scheduler.py), with the pytz operations it      *)
(* uses.  Times are in minutes; day 0 starts at minute 0.                   *)

\* The days the current time is taken from: 0..MaxDay.
MaxDay == 2

\* timedelta(days=1), in minutes
DayMinutes == 1440

HourMinutes == 60

\* pytz.timezone(schedule_config.timezone): a zone is the UTC offset before
\* and from the UTC minute "at" on.  A zone without daylight saving time (the
\* default, Europe/Moscow), one that goes from winter to summer time on day 1
\* (02:00 becomes 03:00) and one that goes back on day 1 (03:00 becomes 02:00).
Zones ==
    { [name |-> "fixed",   before |-> 180, after |-> 180, at |-> 0],
      [name |-> "forward", before |-> 60,  after |-> 120, at |-> DayMinutes + 60],
      [name |-> "back",    before |-> 120, after |-> 60,  at |-> DayMinutes + 60] }

\* The UTC offset of the zone at the UTC minute u.
utcoffset(zone, u) == IF u < zone.at THEN zone.before ELSE zone.after

\* An aware datetime: the wall-clock minute it shows and the UTC offset of its
\* tzinfo.
Aware(wall, off) == [wall |-> wall, off |-> off]

\* The UTC minute of an aware datetime; aware datetimes compare by it.
utc_minute(dt) == dt.wall - dt.off

\* datetime.astimezone(tz) of the aware time at UTC minute u, and
\* datetime.now(tz).
astimezone(zone, u) == Aware(u + utcoffset(zone, u), utcoffset(zone, u))

\* tz.localize(naive) with is_dst=False: the offset under which the zone shows
\* this wall-clock time; the standard-time one of the two when the wall-clock
\* time occurs twice; the offset before the jump when it does not occur.
localize(zone, wall) ==
    LET possible == {o \in {zone.before, zone.after} : utcoffset(zone, wall - o) = o}
    IN  IF possible = {} THEN Aware(wall, zone.before)
        ELSE Aware(wall, CHOOSE o \in possible : \A o2 \in possible : o <= o2)

\* The current_time argument as the function uses it.
current_in_zone(zone, current) ==
    IF current.kind = "naive" THEN localize(zone, current.wall)
    ELSE astimezone(zone, current.utc)

\* A comparison that leaves a run at the scheduled minute on the current day.
calculate_next_run_time_after(zone, hour, minute, current) ==
    LET current_time   == current_in_zone(zone, current)
        day            == current_time.wall \div DayMinutes
        scheduled_time == localize(zone, day * DayMinutes + hour * HourMinutes + minute)
    IN  IF utc_minute(current_time) > utc_minute(scheduled_time)
        THEN Aware(scheduled_time.wall + DayMinutes, scheduled_time.off)
        ELSE scheduled_time

\* calculate_next_run_time: adding timedelta(days=1) to an aware datetime moves
\* its wall-clock time and keeps its tzinfo, and so its offset.
calculate_next_run_time(zone, hour, minute, current) ==
    LET current_time   == current_in_zone(zone, current)
        day            == current_time.wall \div DayMinutes
        scheduled_time == localize(zone, day * DayMinutes + hour * HourMinutes + minute)
    IN  IF utc_minute(current_time) >= utc_minute(scheduled_time)
        THEN Aware(scheduled_time.wall + DayMinutes, scheduled_time.off)
        ELSE scheduled_time

\* The configured times of the model.
ScheduleHours == {0, 2, 3, 11, 23}
ScheduleMinutes == {0, 30, 59}

\* The current times of the model: every half hour of the days 0..MaxDay, as a
\* naive wall-clock time or as an aware time (or the clock, for None).
CurrentTimes ==
    LET minutes == {d * DayMinutes + h * HourMinutes + m :
                       d \in 0..MaxDay, h \in 0..23, m \in {0, 30}}
    IN  {[kind |-> "naive", wall |-> w] : w \in minutes}
            \cup {[kind |-> "aware", utc |-> w - 180] : w \in minutes}

ScheduleInit ==
    /\ \E zone \in Zones, hour \in ScheduleHours, minute \in ScheduleMinutes,
          current \in CurrentTimes :
            fn_call = [fn |-> "calculate_next_run_time", zone |-> zone, hour |-> hour,
                       minute |-> minute, current |-> current]
    /\ fn_return = "none"
    /\ fnpc = "call"

CallCalculateNextRunTime ==
    /\ fnpc = "call"
    /\ fn_call.fn = "calculate_next_run_time"
    /\ fn_return' = calculate_next_run_time(fn_call.zone, fn_call.hour, fn_call.minute,
                                            fn_call.current)
    /\ fnpc' = "done"
    /\ UNCHANGED <<fn_call, download_folder, clock, table, cpc, filtered_df,
                   csv_payments, downloaded_files,
                   file_index, file_payments, flpc, ledgerVars, batchVars, runVars>>

InitSchedule ==
    ScheduleInit /\ TableIdle /\ FilesIdle /\ FolderIdle /\ LedgerIdle /\ BatchIdle /\ RunIdle

NextSchedule == CallCalculateNextRunTime

SpecSchedule == InitSchedule /\ [][NextSchedule]_vars

-----------------------------------------------------------------------------
(* WebhookConfig.__post_init__ (config.py) and WebhookSender.__init__       *)
(* (webhook_sender.py)                                                      *)

\* What an environment variable can hold: it is unset, or it is a text (empty,
\* blank, a word, a word between blanks).
EnvValues ==
    {None, Str(<<>>), Str(<<" ">>), Str(<<"a", "b">>), Str(<<" ", "a", "b", " ">>)}

\* os.getenv(name, '')
getenv(value) == IF value = None THEN <<>> ELSE value.v

\* A configuration that takes the token as it is.
authorization_header_untrimmed(token_value) ==
    IF token_value # <<>> THEN Str(<<"Bearer ">> \o token_value) ELSE None

\* WebhookConfig.__post_init__: the Authorization entry of webhook_headers
\* (None: the dict has no such key).
authorization_header(token_value) ==
    LET token == strip(token_value)
    IN  IF token # <<>> THEN Str(<<"Bearer ">> \o token) ELSE None

\* WebhookSender.__init__: session.auth (None: the session default).
session_auth(basic_username, basic_password) ==
    LET username == strip(basic_username)
        password == strip(basic_password)
    IN  IF username # <<>> /\ password # <<>>
        THEN [username |-> username, password |-> password]
        ELSE None

AuthInit ==
    /\ \E token \in EnvValues, username \in EnvValues, password \in EnvValues :
          fn_call = [fn |-> "WebhookSender",
                     WEBHOOK_TOKEN |-> token,
                     WEBHOOK_BASIC_USERNAME |-> username,
                     WEBHOOK_BASIC_PASSWORD |-> password]
    /\ fn_return = "none"
    /\ fnpc = "call"

\* The module config is loaded: WebhookConfig() reads the environment.
LoadWebhookConfig ==
    /\ fnpc = "call"
    /\ fn_call.fn = "WebhookSender"
    /\ fn_return' = [webhook_headers |->
                        [content_type  |-> "application/json",
                         authorization |->
                            authorization_header(getenv(fn_call.WEBHOOK_TOKEN))],
                     basic_username |-> getenv(fn_call.WEBHOOK_BASIC_USERNAME),
                     basic_password |-> getenv(fn_call.WEBHOOK_BASIC_PASSWORD),
                     session |-> None]
    /\ fnpc' = "config"
    /\ UNCHANGED <<fn_call, download_folder, clock, table, cpc, filtered_df,
                   csv_payments, downloaded_files,
                   file_index, file_payments, flpc, ledgerVars, batchVars, runVars>>

\* WebhookSender(): the session takes the headers of the configuration and,
\* with both credentials, the basic auth.
ConstructWebhookSender ==
    /\ fnpc = "config"
    /\ fn_return' = [fn_return EXCEPT
                        !.session = [headers |-> fn_return.webhook_headers,
                                     auth |-> session_auth(fn_return.basic_username,
                                                           fn_return.basic_password)]]
    /\ fnpc' = "done"
    /\ UNCHANGED <<fn_call, download_folder, clock, table, cpc, filtered_df,
                   csv_payments, downloaded_files,
                   file_index, file_payments, flpc, ledgerVars, batchVars, runVars>>

InitAuth ==
    AuthInit /\ TableIdle /\ FilesIdle /\ FolderIdle /\ LedgerIdle /\ BatchIdle /\ RunIdle

NextAuth == LoadWebhookConfig \/ ConstructWebhookSender

SpecAuth == InitAuth /\ [][NextAuth]_vars

-----------------------------------------------------------------------------
(* BrowserAutomation._wait_for_download (browser_automation.py)             *)

\* The downloads the browser can start while the function waits, and the
\* largest timeout (seconds) of the model.
MaxDownloads == 1
MaxTimeout == 2

\* The endings of a file a browser is still writing, as the function names
\* them, and the ending of a finished statement.
PartialSuffixes == {".crdownload", ".tmp", ".part"}
Suffixes == PartialSuffixes \cup {".csv"}

\* A path in the download folder: the file's name up to its last ending, and
\* that ending.  Name 0 is a file from before the download.
FilePath(name, suffix) == [name |-> name, suffix |-> suffix]
OldPaths == {FilePath(0, suffix) : suffix \in Suffixes}
NewPaths == {FilePath(name, suffix) : name \in 1..MaxDownloads, suffix \in Suffixes}

\* str.endswith with a tuple of endings
endswith(path, endings) == path.suffix \in endings

\* _get_download_files: the files of the folder (os.listdir gives them in no
\* defined order, so a list's first element is any of them).
get_download_files(folder) == folder

\* glob.glob(os.path.join(download_folder, "*.crdownload"))
crdownload_files(folder) == {f \in folder : f.suffix = ".crdownload"}

\* new_files and complete_files of one pass of the loop
new_files(current_files, initial_files) ==
    {f \in current_files : f \notin initial_files}
complete_files(new) == {f \in new : ~endswith(f, PartialSuffixes)}

\* A second look that keeps the ending filter of the first.
new_complete_files_filtered(current_files_again, initial_files) ==
    complete_files(new_files(current_files_again, initial_files))

\* new_complete_files: the second look after the glob found no .crdownload
\* file; the source applies no ending filter here.
new_complete_files(current_files_again, initial_files) ==
    new_files(current_files_again, initial_files)

\* What a step of the download leaves alone.
WaitOthersUnchanged ==
    UNCHANGED <<table, cpc, filtered_df, csv_payments, downloaded_files, file_index,
                file_payments, flpc, ledgerVars, batchVars, runVars>>

\* _handle_download_page calls _wait_for_download(timeout, initial_files) with
\* the listing taken before the page was opened; the folder still holds
\* those files.
WaitInit ==
    /\ \E timeout \in 0..MaxTimeout, initial_files \in SUBSET OldPaths :
         /\ fn_call = [fn |-> "_wait_for_download", timeout |-> timeout,
                       initial_files |-> initial_files]
         /\ download_folder = initial_files
    /\ clock = 0
    /\ fn_return = None
    /\ fnpc = "loop"

\* The browser, while the function waits: it starts writing a file, or
\* finishes one by renaming it, or writes a finished file at once.
BrowserWrites ==
    /\ fn_call.fn = "_wait_for_download"
    /\ fnpc # "done"
    /\ \/ \E f \in NewPaths :
            /\ \A g \in download_folder : g.name # f.name
            /\ download_folder' = download_folder \cup {f}
       \/ \E f \in download_folder :
            /\ f \in NewPaths
            /\ endswith(f, PartialSuffixes)
            /\ download_folder' =
                  (download_folder \ {f}) \cup {FilePath(f.name, ".csv")}
    /\ UNCHANGED <<fn_call, fn_return, fnpc, clock>>
    /\ WaitOthersUnchanged

\* The loop condition is false: the warning and return None.
WaitTimeout ==
    /\ fnpc = "loop"
    /\ ~(clock < fn_call.timeout)
    /\ fn_return' = None
    /\ fnpc' = "done"
    /\ UNCHANGED <<fn_call, download_folder, clock>>
    /\ WaitOthersUnchanged

\* One pass, first half: the listing, new_files and complete_files; a
\* complete file is returned, otherwise the pass goes on to the glob.
WaitCheckNewFiles ==
    /\ fnpc = "loop"
    /\ clock < fn_call.timeout
    /\ LET current_files == get_download_files(download_folder)
           complete == complete_files(new_files(current_files, fn_call.initial_files))
       IN  IF complete # {}
           THEN /\ \E f \in complete : fn_return' = f
                /\ fnpc' = "done"
           ELSE /\ fnpc' = "glob"
                /\ UNCHANGED fn_return
    /\ UNCHANGED <<fn_call, download_folder, clock>>
    /\ WaitOthersUnchanged

\* One pass, second half: the glob for .crdownload files and, when there is
\* none, the second listing; without a return, time.sleep(1).  The calls of
\* the try block do not raise (_get_download_files catches its exceptions).
WaitCheckCrdownload ==
    /\ fnpc = "glob"
    /\ LET found == IF crdownload_files(download_folder) = {}
                    THEN new_complete_files(get_download_files(download_folder),
                                            fn_call.initial_files)
                    ELSE {}
       IN  IF found # {}
           THEN /\ \E f \in found : fn_return' = f
                /\ fnpc' = "done"
                /\ UNCHANGED clock
           ELSE /\ clock' = clock + 1
                /\ fnpc' = "loop"
                /\ UNCHANGED fn_return
    /\ UNCHANGED <<fn_call, download_folder>>
    /\ WaitOthersUnchanged

InitDownload ==
    WaitInit /\ TableIdle /\ FilesIdle /\ LedgerIdle /\ BatchIdle /\ RunIdle

\* The steps of the function itself.
WaitStep == WaitTimeout \/ WaitCheckNewFiles \/ WaitCheckCrdownload

NextDownload == BrowserWrites \/ WaitStep

SpecDownload == InitDownload /\ [][NextDownload]_vars

\* The function is scheduled as long as it has not returned.
SpecDownloadLive == SpecDownload /\ WF_vars(WaitStep)

-----------------------------------------------------------------------------
(* EmailHandler.get_latest_emails_with_downloads (email_handler.py) and     *)
(* EmailProcessor.process_emails (main.py)                                  *)

\* The limit process_emails passes to the fetch stage and the batch size it
\* passes to the dispatch.
FetchLimit == 10
RunBatchSize == 50
\* The mailbox of the model holds the messages 1..MaxMail.
MaxMail == 2
\* The payments one email's files can yield.
MaxPaymentsPerEmail == 1

\* A message of the mailbox: another subject, the statement subject without
\* a download link, or the statement subject with download links.
MessageKinds == {"other", "statement", "statement_links"}

\* EmailHandler.search_emails: the ids the server lists, oldest first, cut to
\* the last `limit`.
search_emails(box, limit) ==
    LET email_ids == sorted(DOMAIN box)
    IN  IF limit # 0 /\ Len(email_ids) > limit
        THEN PySliceFrom(email_ids, 0 - limit)
        ELSE email_ids

\* The first loop of get_latest_emails_with_downloads: the ids whose message
\* could be fetched and has the target subject.  The ledger S is not read:
\* the is_processed check is commented out in the source.
RECURSIVE filter_by_subject(_, _, _, _)
filter_by_subject(email_ids, box, fetched, S) ==
    IF email_ids = <<>> THEN <<>>
    ELSE LET email_id == Head(email_ids)
             rest     == filter_by_subject(Tail(email_ids), box, fetched, S)
         IN  IF email_id \in fetched /\ box[email_id] # "other"
             THEN <<email_id>> \o rest
             ELSE rest

\* The second loop: the ids with download links, until `limit` are found.
RECURSIVE collect_downloads(_, _, _, _)
collect_downloads(filtered, box, limit, results) ==
    IF filtered = <<>> THEN results
    ELSE LET email_id == Head(filtered)
             found    == IF box[email_id] = "statement_links"
                         THEN Append(results, email_id) ELSE results
         IN  IF Len(found) >= limit THEN found
             ELSE collect_downloads(Tail(filtered), box, limit, found)

\* EmailHandler.get_latest_emails_with_downloads(limit)
get_latest_emails_with_downloads(box, fetched, S, limit) ==
    LET email_ids == search_emails(box, limit * 10)
        filtered  == filter_by_subject(email_ids, box, fetched, S)
    IN  IF email_ids = <<>> \/ filtered = <<>> THEN <<>>
        ELSE collect_downloads(PySliceFrom(filtered, 0 - limit), box, limit, <<>>)

CurrentEmail == emails_with_downloads[k]

\* The lists process_downloaded_files can return for one email: ids continue
\* those of all_payments.
\* The dates of the payments extracted in a run: a date cell is present or
\* missing.
RunDateValues == {"null", "parseable"}

ExtractedLists(email_id, first) ==
    UNION {[1..n -> {Payment(first + 1, PlainAmount, d, FALSE, email_id) :
                        d \in RunDateValues}] :
           n \in 0..MaxPaymentsPerEmail}

\* process_emails up to the fetch: EmailContextManager constructs the handler
\* (and with it a tracker loaded from the file) and connects; a failed
\* connection raises to the outer except clause.
RunStart ==
    /\ pc \in {"idle", "returned"}
    /\ TrackerInit
    /\ \E connected \in BOOLEAN :
         IF connected
         THEN /\ pc' = "fetch"
              /\ errors' = <<>>
              /\ run_result' = "none"
         ELSE /\ pc' = "returned"
              /\ errors' = <<"critical">>
              /\ run_result' = "failure"
    /\ emails_with_downloads' = <<>>
    /\ k' = 0
    /\ downloaded' = FALSE
    /\ all_payments' = <<>>
    /\ filesProcessed' = {}
    /\ raisedFor' = {}
    /\ noFilesFor' = {}
    /\ markedThisRun' = {}
    /\ ledgerAtFetch' = {}
    \* the locals of the previous call of send_webhook_batch are gone
    /\ payments' = <<>>
    /\ batch_size' = 1
    /\ bpc' = "idle"
    /\ i' = 0
    /\ batches_sent' = 0
    /\ failed_batches' = 0
    /\ calls' = <<>>
    /\ response' = "none"
    /\ batch_result' = NoResult
    /\ UNCHANGED <<mailbox, seen_flags, webhook_url, csvVars>>

\* get_latest_emails_with_downloads(limit=10) and the early return.
RunFetch ==
    /\ pc = "fetch"
    /\ \E fetched \in SUBSET DOMAIN mailbox :
         emails_with_downloads' =
            get_latest_emails_with_downloads(mailbox, fetched, processed_emails, FetchLimit)
    /\ ledgerAtFetch' = processed_emails
    /\ IF emails_with_downloads' = <<>>
       THEN /\ run_result' = "success"
            /\ pc' = "returned"
            /\ k' = 0
       ELSE /\ pc' = "email"
            /\ k' = 1
            /\ UNCHANGED run_result
    /\ UNCHANGED <<mailbox, downloaded, all_payments, errors, seen_flags, filesProcessed,
                   raisedFor, noFilesFor, markedThisRun, ledgerVars, batchVars, csvVars>>

\* A loop that gives the run up at the first exception.
RunDownloadAborts ==
    /\ pc = "email"
    /\ k <= Len(emails_with_downloads)
    /\ \E outcome \in {"files", "no_files", "raise"} :
         CASE outcome = "files" ->
                /\ pc' = "process"
                /\ downloaded' = TRUE
                /\ UNCHANGED <<k, errors, raisedFor, noFilesFor, run_result>>
           [] outcome = "no_files" ->
                /\ k' = k + 1
                /\ downloaded' = FALSE
                /\ noFilesFor' = noFilesFor \cup {CurrentEmail}
                /\ UNCHANGED <<pc, errors, raisedFor, run_result>>
           [] outcome = "raise" ->
                /\ pc' = "returned"
                /\ run_result' = "failure"
                /\ downloaded' = FALSE
                /\ errors' = Append(errors, "email")
                /\ raisedFor' = raisedFor \cup {CurrentEmail}
                /\ UNCHANGED <<k, noFilesFor>>
    /\ UNCHANGED <<mailbox, emails_with_downloads, all_payments, seen_flags,
                   filesProcessed, markedThisRun, ledgerAtFetch, ledgerVars, batchVars,
                   csvVars>>

\* A loop without the continue of the empty download: the email goes on to the
\* marking.
RunDownloadMarksEmpty ==
    /\ pc = "email"
    /\ k <= Len(emails_with_downloads)
    /\ \E outcome \in {"files", "no_files", "raise"} :
         CASE outcome = "files" ->
                /\ pc' = "process"
                /\ downloaded' = TRUE
                /\ UNCHANGED <<k, errors, raisedFor, noFilesFor>>
           [] outcome = "no_files" ->
                /\ pc' = "mark"
                /\ downloaded' = FALSE
                /\ noFilesFor' = noFilesFor \cup {CurrentEmail}
                /\ UNCHANGED <<k, errors, raisedFor>>
           [] outcome = "raise" ->
                /\ k' = k + 1
                /\ downloaded' = FALSE
                /\ errors' = Append(errors, "email")
                /\ raisedFor' = raisedFor \cup {CurrentEmail}
                /\ UNCHANGED <<pc, noFilesFor>>
    /\ UNCHANGED <<mailbox, emails_with_downloads, all_payments, run_result, seen_flags,
                   filesProcessed, markedThisRun, ledgerAtFetch, ledgerVars, batchVars,
                   csvVars>>

\* download_files for the current email: files, no file (continue), or an
\* exception that reaches the except clause of the loop.
RunDownload ==
    /\ pc = "email"
    /\ k <= Len(emails_with_downloads)
    /\ \E outcome \in {"files", "no_files", "raise"} :
         CASE outcome = "files" ->
                /\ pc' = "process"
                /\ downloaded' = TRUE
                /\ UNCHANGED <<k, errors, raisedFor, noFilesFor>>
           [] outcome = "no_files" ->
                /\ k' = k + 1
                /\ downloaded' = FALSE
                /\ noFilesFor' = noFilesFor \cup {CurrentEmail}
                /\ UNCHANGED <<pc, errors, raisedFor>>
           [] outcome = "raise" ->
                /\ k' = k + 1
                /\ downloaded' = FALSE
                /\ errors' = Append(errors, "email")
                /\ raisedFor' = raisedFor \cup {CurrentEmail}
                /\ UNCHANGED <<pc, noFilesFor>>
    /\ UNCHANGED <<mailbox, emails_with_downloads, all_payments, run_result, seen_flags,
                   filesProcessed, markedThisRun, ledgerAtFetch, ledgerVars, batchVars,
                   csvVars>>

\* A loop whose except clause falls through to the marking.
RunProcessMarksOnRaise ==
    /\ pc = "process"
    /\ \/ \E extracted \in ExtractedLists(CurrentEmail, Len(all_payments)) :
            /\ all_payments' = all_payments \o extracted
            /\ filesProcessed' = filesProcessed \cup {CurrentEmail}
            /\ pc' = "mark"
            /\ UNCHANGED <<k, errors, raisedFor>>
       \/ /\ pc' = "mark"
          /\ errors' = Append(errors, "email")
          /\ raisedFor' = raisedFor \cup {CurrentEmail}
          /\ UNCHANGED <<k, all_payments, filesProcessed>>
    /\ UNCHANGED <<mailbox, emails_with_downloads, downloaded, run_result, seen_flags,
                   noFilesFor, markedThisRun, ledgerAtFetch, ledgerVars, batchVars,
                   csvVars>>

\* process_downloaded_files for the current email and all_payments.extend; an
\* exception goes to the except clause of the loop, which skips the marking.
RunProcess ==
    /\ pc = "process"
    /\ \/ \E extracted \in ExtractedLists(CurrentEmail, Len(all_payments)) :
            /\ all_payments' = all_payments \o extracted
            /\ filesProcessed' = filesProcessed \cup {CurrentEmail}
            /\ pc' = "mark"
            /\ UNCHANGED <<k, errors, raisedFor>>
       \/ /\ pc' = "email"
          /\ k' = k + 1
          /\ errors' = Append(errors, "email")
          /\ raisedFor' = raisedFor \cup {CurrentEmail}
          /\ UNCHANGED <<all_payments, filesProcessed>>
    /\ UNCHANGED <<mailbox, emails_with_downloads, downloaded, run_result, seen_flags,
                   noFilesFor, markedThisRun, ledgerAtFetch, ledgerVars, batchVars,
                   csvVars>>

\* mark_as_read (the IMAP store is taken to succeed; the method swallows its
\* failure) and email_tracker.mark_as_processed for the current email.
RunMark ==
    /\ pc = "mark"
    /\ seen_flags' = seen_flags \cup {CurrentEmail}
    /\ \E outcome \in SaveOutcomes :
         \* the list is written in ascending order here: a load reads it as a set
         TrackerMark(CurrentEmail, outcome,
                     sorted(tracker_add(processed_emails, CurrentEmail)))
    /\ markedThisRun' = markedThisRun \cup {CurrentEmail}
    /\ pc' = "email"
    /\ k' = k + 1
    /\ UNCHANGED <<mailbox, emails_with_downloads, downloaded, all_payments, errors,
                   run_result, filesProcessed, raisedFor, noFilesFor, ledgerAtFetch,
                   batchVars,
                   csvVars>>

\* After the loop, without payments: nothing to send, cleanup, return.
RunNoPayments ==
    /\ pc = "email"
    /\ k > Len(emails_with_downloads)
    /\ all_payments = <<>>
    /\ run_result' = IF errors = <<>> THEN "success" ELSE "failure"
    /\ pc' = "returned"
    /\ UNCHANGED <<mailbox, emails_with_downloads, k, downloaded, all_payments, errors,
                   seen_flags, filesProcessed, raisedFor, noFilesFor, markedThisRun,
                   ledgerAtFetch,
                   ledgerVars, batchVars, csvVars>>

\* After the loop, with payments: self.send_webhook(all_payments) calls
\* send_webhook_batch(payments, batch_size=50).
RunSendWebhook ==
    /\ pc = "email"
    /\ k > Len(emails_with_downloads)
    /\ all_payments # <<>>
    /\ payments' = all_payments
    /\ batch_size' = RunBatchSize
    /\ bpc' = "call"
    /\ calls' = <<>>
    /\ response' = "none"
    /\ batch_result' = NoResult
    /\ pc' = "sending"
    /\ i' = 0
    /\ batches_sent' = 0
    /\ failed_batches' = 0
    /\ UNCHANGED <<webhook_url, runVars_but_pc, ledgerVars, csvVars>>

RunBatchEnter ==
    pc = "sending" /\ BatchEnter /\ UNCHANGED <<ledgerVars, csvVars, runVars>>
RunBatchIter ==
    pc = "sending" /\ BatchIter /\ UNCHANGED <<ledgerVars, csvVars, runVars>>
RunBatchReturn ==
    pc = "sending" /\ BatchReturn /\ UNCHANGED <<ledgerVars, csvVars, runVars>>

\* send_webhook_batch has returned: the error entry of a failed dispatch,
\* cleanup, and the success flag.
RunFinish ==
    /\ pc = "sending"
    /\ bpc = "done"
    /\ errors' = IF batch_result.success THEN errors ELSE Append(errors, "webhook")
    /\ run_result' = IF errors' = <<>> THEN "success" ELSE "failure"
    /\ pc' = "returned"
    /\ bpc' = "idle"
    /\ UNCHANGED <<payments, batch_size, webhook_url, i, batches_sent, failed_batches,
                   calls, response, batch_result, mailbox, emails_with_downloads, k,
                   downloaded,
                   all_payments, seen_flags, filesProcessed, raisedFor, noFilesFor,
                   markedThisRun,
                   ledgerAtFetch, ledgerVars, csvVars>>

RunInit ==
    /\ pc = "idle"
    /\ mailbox \in [1..MaxMail -> MessageKinds]
    /\ emails_with_downloads = <<>>
    /\ k = 0
    /\ downloaded = FALSE
    /\ all_payments = <<>>
    /\ errors = <<>>
    /\ run_result = "none"
    /\ seen_flags = {}
    /\ filesProcessed = {}
    /\ raisedFor = {}
    /\ noFilesFor = {}
    /\ markedThisRun = {}
    /\ ledgerAtFetch = {}

-----------------------------------------------------------------------------
(* SpecRun: runs of process_emails, one after the other, on one mailbox and *)
(* one tracking file                                                        *)

\* A first run on a new installation: no tracking file yet; the webhook URL
\* is configured or not.
InitRun ==
    /\ RunInit
    /\ LedgerIdle
    /\ CsvIdle
    /\ payments = <<>>
    /\ batch_size = 1
    /\ webhook_url \in BOOLEAN
    /\ bpc = "idle"
    /\ i = 0
    /\ batches_sent = 0
    /\ failed_batches = 0
    /\ calls = <<>>
    /\ response = "none"
    /\ batch_result = NoResult

NextRun ==
    \/ RunStart
    \/ RunFetch
    \/ RunDownload
    \/ RunProcess
    \/ RunMark
    \/ RunNoPayments
    \/ RunSendWebhook
    \/ RunBatchEnter
    \/ RunBatchIter
    \/ RunBatchReturn
    \/ RunFinish

SpecRun == InitRun /\ [][NextRun]_vars

-----------------------------------------------------------------------------
(* Properties of send_webhook_batch (SpecBatch)                             *)

\* The chunks handed to send_webhook so far, in call order.
CallChunks == [n \in 1..Len(calls) |-> calls[n].chunk]

\* The partition of a list into consecutive chunks of size b >= 1.
RECURSIVE Chunks(_, _)
Chunks(s, b) ==
    IF s = <<>> THEN <<>>
    ELSE IF Len(s) <= b THEN <<s>>
    ELSE <<SubSeq(s, 1, b)>> \o Chunks(SubSeq(s, b + 1, Len(s)), b)

RECURSIVE Concat(_)
Concat(ss) == IF ss = <<>> THEN <<>> ELSE Head(ss) \o Concat(Tail(ss))

IsPrefix(a, b) == Len(a) <= Len(b) /\ a = SubSeq(b, 1, Len(a))

CeilDiv(n, b) == (n + b - 1) \div b

Delivered == {n \in 1..Len(calls) : calls[n].ret}
Failed    == {n \in 1..Len(calls) : ~calls[n].ret}

\* C1: for batch_size >= 1 the calls of send_webhook are, at every moment, the
\* first chunks of the partition of the payment list, each once and in list
\* order, whatever the earlier calls returned; while a chunk is left the loop
\* goes on (no early abort), and at the return every chunk has been handed
\* over exactly once (no retry).
C1_EveryChunkOnceInOrder ==
    batch_size >= 1 =>
        /\ IsPrefix(CallChunks, Chunks(payments, batch_size))
        /\ (bpc = "loop" /\ Len(calls) < Len(Chunks(payments, batch_size)))
               => range_has(i, Len(payments), batch_size)
        /\ bpc = "done" => CallChunks = Chunks(payments, batch_size)

\* A call that failed was followed by the calls for the remaining chunks.
C1_Witness ==
    /\ bpc = "done"
    /\ batch_size >= 1
    /\ Len(calls) = 3
    /\ ~calls[1].ret
    /\ ~calls[2].ret
    /\ calls[3].ret

\* C2: when send_webhook_batch returns for a non-empty list (batch_size >= 1),
\* success is true iff every chunk was delivered, batches_sent counts the
\* delivered chunks, failed_batches the failed ones, and together they are the
\* number of chunks.
C2_ResultCountsChunks ==
    (bpc = "done" /\ payments # <<>> /\ batch_size >= 1) =>
        /\ batch_result.returned
        /\ batch_result.success <=> (\A n \in 1..Len(calls) : calls[n].ret)
        /\ batch_result.batches_sent = Cardinality(Delivered)
        /\ batch_result.failed_batches = Cardinality(Failed)
        /\ batch_result.batches_sent + batch_result.failed_batches
             = CeilDiv(Len(payments), batch_size)

\* Three chunks of which only the second failed.
C2_Witness ==
    /\ bpc = "done"
    /\ Len(calls) = 3
    /\ calls[1].ret /\ ~calls[2].ret /\ calls[3].ret
    /\ batch_result.success = FALSE
    /\ batch_result.batches_sent = 2
    /\ batch_result.failed_batches = 1

\* The loop of send_webhook_batch as a function of the list: the batches it
\* builds for range(n, len(p), size).
RECURSIVE batches_from(_, _, _)
batches_from(p, n, size) ==
    IF range_has(n, Len(p), size)
    THEN <<batch_at(p, n, size)>> \o batches_from(p, loop_next(n, size, TRUE), size)
    ELSE <<>>

\* 120 payments with batch_size 50 give chunks of 50, 50 and 20.
Example120 ==
    LET p  == [n \in 1..120 |-> n]
        bs == batches_from(p, 0, 50)
    IN  /\ Len(bs) = 3
        /\ Len(bs[1]) = 50 /\ Len(bs[2]) = 50 /\ Len(bs[3]) = 20
        /\ Concat(bs) = p

\* C3: for batch_size b >= 1 the chunks sent are ceil(n/b) consecutive chunks,
\* each but the last of exactly b payments, and their concatenation in sending
\* order is the payment list.
C3_PartitionIntoChunks ==
    /\ batch_size >= 1 =>
         /\ IsPrefix(Concat(CallChunks), payments)
         /\ \A n \in 1..Len(calls) :
               /\ Len(calls[n].chunk) \in 1..batch_size
               /\ n < Len(calls) => Len(calls[n].chunk) = batch_size
         /\ bpc = "done" =>
               /\ Len(calls) = CeilDiv(Len(payments), batch_size)
               /\ Concat(CallChunks) = payments
    /\ Example120

\* A list that does not divide evenly: the last chunk is shorter.
C3_Witness ==
    /\ bpc = "done"
    /\ batch_size = 2
    /\ Len(payments) = 3
    /\ Len(calls) = 2
    /\ Len(calls[1].chunk) = 2
    /\ Len(calls[2].chunk) = 1

-----------------------------------------------------------------------------
(* Properties of the ledger (SpecLedger)                                    *)

\* C5: after mark_as_processed(id), is_processed(id) holds, the other ids are
\* those of before, a repeated call leaves the set as the first call left it,
\* and a persistence step that succeeded wrote a list holding id exactly once
\* whose elements are the in-memory set.
C5_MarkIdempotent ==
    lastOp.op = "mark" =>
        /\ is_processed(processed_emails, lastOp.arg)
        /\ processed_emails \ {lastOp.arg} = lastOp.pre \ {lastOp.arg}
        /\ lastOp.repeat => processed_emails = lastOp.pre
        /\ lastOp.outcome = "ok" =>
              /\ tracking_file.kind = "json"
              /\ Count(tracking_file.ids, lastOp.arg) = 1
              /\ Range(tracking_file.ids) = processed_emails
              /\ Len(tracking_file.ids) = Cardinality(processed_emails)

\* The same id marked twice in a row, both times persisted.
C5_Witness ==
    /\ lastOp.op = "mark"
    /\ lastOp.repeat
    /\ lastOp.outcome = "ok"
    /\ savesOk
    /\ Cardinality(processed_emails) >= 2

\* C6: as long as every persistence step succeeded, the file holds exactly
\* the in-memory set: loading it gives that set, and a tracker constructed
\* from it (a restart) has the set of the tracker it replaces.
C6_WriteThrough ==
    /\ savesOk =>
          /\ load_processed_emails(tracking_file).value = processed_emails
          /\ (lastOp.op = "mark" \/ (lastOp.op = "cleanup" /\ lastOp.outcome = "ok"))
                => (tracking_file.kind = "json"
                    /\ Range(tracking_file.ids) = processed_emails)
    /\ (lastOp.op = "load" /\ lastOp.outcome = "clean")
          => processed_emails = lastOp.pre

\* A new id was marked and persisted: the file now loads to the set with it.
C6_Witness ==
    /\ savesOk
    /\ lastOp.op = "mark"
    /\ lastOp.arg \notin lastOp.pre
    /\ lastOp.pre # {}
    /\ lastOp.arg \in load_processed_emails(tracking_file).value

\* C7: loading never raises, and a tracker loaded from a missing, malformed
\* or partially written file starts with the empty set.
C7_LoadNeverRaises ==
    /\ ~load_processed_emails(tracking_file).raised
    /\ lastOp.op = "load" =>
          /\ ~lastOp.raised
          /\ tracking_file.kind \in {"missing", "malformed", "partial"} =>
                /\ processed_emails = {}
                /\ \A id \in EmailIds : ~is_processed(processed_emails, id)

\* A restart on the file a crash during persistence left.
C7_Witness ==
    /\ lastOp.op = "load"
    /\ tracking_file.kind = "partial"
    /\ lastOp.pre # {}
    /\ processed_emails = {}

\* The n largest elements of S.
Largest(S, n) == {x \in S : Cardinality({y \in S : y > x}) < n}

\* C8: after cleanup_old_entries(keep_last_n), keep_last_n >= 0, the set is
\* the min(|S|, keep_last_n) largest ids of the set before.
C8_CleanupKeepsLargest ==
    (lastOp.op = "cleanup" /\ lastOp.arg >= 0) =>
        processed_emails
            = Largest(lastOp.pre, Min2(Cardinality(lastOp.pre), lastOp.arg))

\* The same for keep_last_n >= 1.
CleanupKeepsLargestPositive ==
    (lastOp.op = "cleanup" /\ lastOp.arg >= 1) =>
        processed_emails
            = Largest(lastOp.pre, Min2(Cardinality(lastOp.pre), lastOp.arg))

-----------------------------------------------------------------------------
(* Properties of process_csv_file (SpecCsv)                                 *)

\* Row n of a table that was read is dropped by the row filter.
DroppedByFilter(n) == n \notin Range(filtered_df)

\* Row n holds the filter value in the filter column.
HoldsFilterValue(n) ==
    /\ csv_filter_column \in table.columns
    /\ table.rows[n][csv_filter_column] = Str(csv_filter_value)

\* C10: a row is dropped by the row filter iff filter_column is a column of
\* the table and the row's value in it equals filter_value; such a row is not
\* in the output, and without the column the filter drops nothing.
C10_FilterExcludes ==
    (cpc = "done" /\ table.readable) =>
        /\ \A n \in 1..Len(table.rows) : DroppedByFilter(n) <=> HoldsFilterValue(n)
        /\ \A m \in 1..Len(csv_payments) : ~HoldsFilterValue(csv_payments[m].row)
        /\ csv_filter_column \notin table.columns
              => filtered_df = [n \in 1..Len(table.rows) |-> n]

\* A table with the filter column of which one row is dropped and another,
\* with a different status, is in the output.
C10_Witness ==
    /\ cpc = "done"
    /\ table.readable
    /\ \E n \in 1..Len(table.rows) : HoldsFilterValue(n) /\ DroppedByFilter(n)
    /\ \E m \in 1..Len(csv_payments) :
          table.rows[csv_payments[m].row][csv_filter_column] = Str("pending")

-----------------------------------------------------------------------------
(* Properties of process_emails and the fetch stage (SpecRun)               *)

\* C4: the fetch stage never returns an id that is_processed reports as
\* processed: an email marked in one run is not handed over in a later run.
C4_FetchSkipsProcessed ==
    \A n \in 1..Len(emails_with_downloads) :
        ~is_processed(ledgerAtFetch, emails_with_downloads[n])

\* C9: within a run the ledger is updated for an email only after
\* process_downloaded_files returned for it: mark_as_processed is not called
\* for an email whose files were not processed, nor for one whose handling
\* raised.
C9_MarkAfterProcessing ==
    /\ markedThisRun \subseteq filesProcessed
    /\ markedThisRun \cap raisedFor = {}
    /\ (lastOp.op = "mark" => lastOp.arg \in filesProcessed \ raisedFor)
    /\ (pc \in {"email", "process", "mark", "sending"}
          => processed_emails \subseteq ledgerAtFetch \cup filesProcessed)
    /\ (pc = "process" => CurrentEmail \notin markedThisRun)
    /\ (pc = "mark" => CurrentEmail \in filesProcessed)

\* A run in which one email was marked after its files were processed and the
\* handling of another raised.
C9_Witness ==
    /\ pc = "returned"
    /\ markedThisRun # {}
    /\ raisedFor # {}
    /\ processed_emails = markedThisRun

-----------------------------------------------------------------------------
(* Properties of the field functions (SpecFields)                           *)

TransactionIdReturned == fnpc = "done" /\ fn_call.fn = "transaction_id"

\* The text _extract_payment_id works on, for a string cell.
CellText == strip(fn_call.cell.v)

BlankCell ==
    fn_call.cell.t \in {"nan", "none"} \/ CellText = <<>>

\* C11: the transaction_id of a payment record is a non-empty string for every
\* cell value: the sentinel "-" for a null, NaN, empty or whitespace-only cell
\* and for a table without the id column, and an inferred id or the sentinel
\* otherwise.
C11_TransactionIdNeverEmpty ==
    TransactionIdReturned =>
        /\ Len(fn_return) >= 1
        /\ \A n \in 1..Len(fn_return) : fn_return[n] # ""
        /\ (~fn_call.present => fn_return = Sentinel)
        /\ (BlankCell => fn_return = Sentinel)

\* A whitespace-only cell of a table that has the id column gave the sentinel.
C11_Witness ==
    /\ TransactionIdReturned
    /\ fn_call.present
    /\ fn_call.cell = Str(<<" ">>)
    /\ fn_return = Sentinel

AllDigits(s) == \A n \in 1..Len(s) : IsDigit(s[n])

\* s occurs in the text.
OccursIn(text, s) ==
    /\ s # <<>>
    /\ \E a \in 1..(Len(text) - Len(s) + 1) : SubSeq(text, a, a + Len(s) - 1) = s

\* Some part of the text has the form.
SomePart(text, HasForm(_)) ==
    \E a \in 1..Len(text) : \E b \in a..Len(text) : HasForm(SubSeq(text, a, b))

AfterSeparator(s) ==
    IF s # <<>> /\ Head(s) \in {"-", "_"} THEN Tail(s) ELSE s

\* A contract number: the letter C, a separator or none, six digits or more.
IsContract(s) ==
    /\ Head(s) \in {"C", "c"}
    /\ Len(AfterSeparator(Tail(s))) >= 6
    /\ AllDigits(AfterSeparator(Tail(s)))

\* A reference number: two to five letters, a separator or none, four digits
\* or more.
IsReference(s) ==
    \E l \in 2..5 :
        /\ Len(s) > l
        /\ \A n \in 1..l : IsAsciiLetter(s[n])
        /\ Len(AfterSeparator(SubSeq(s, l + 1, Len(s)))) >= 4
        /\ AllDigits(AfterSeparator(SubSeq(s, l + 1, Len(s))))

\* The whole runs of digits of a text, as pairs of positions.
DigitRuns(text) ==
    LET firsts == {a \in 1..Len(text) :
                     IsDigit(text[a]) /\ (a = 1 \/ ~IsDigit(text[a - 1]))}
        lasts  == {b \in 1..Len(text) :
                     IsDigit(text[b]) /\ (b = Len(text) \/ ~IsDigit(text[b + 1]))}
    IN  {ab \in firsts \X lasts :
            /\ ab[1] <= ab[2]
            /\ \A b \in lasts : b >= ab[1] => ab[2] <= b}

\* What may stand between a label and its number: blanks and at most one
\* number sign.
IsLabelGap(g) ==
    LET marks == SelectSeq(g, LAMBDA c : ~IsSpace(c))
    IN  marks = <<>> \/ (Len(marks) = 1 /\ marks[1] \in {"No", "#"})

IsLabel(s) == \E n \in 1..Len(Labels) : lower(s) = lower(Labels[n])

Acceptable(text, ab) ==
    /\ ab[2] - ab[1] + 1 >= 4
    /\ int_of(SubSeq(text, ab[1], ab[2])) >= 2400
    /\ int_of(SubSeq(text, ab[1], ab[2])) # 8000

\* The acceptable runs that follow a label.
LabelledRuns(text) ==
    {ab \in DigitRuns(text) :
        /\ Acceptable(text, ab)
        /\ \E q \in 1..(ab[1] - 1) :
              /\ IsLabelGap(SubSeq(text, q + 1, ab[1] - 1))
              /\ \E p \in 1..q : IsLabel(SubSeq(text, p, q))}

\* The acceptable runs that stand between word boundaries.
BareRuns(text) ==
    {ab \in DigitRuns(text) :
        /\ Acceptable(text, ab)
        /\ (ab[1] = 1 \/ ~IsWord(text[ab[1] - 1]))
        /\ (ab[2] = Len(text) \/ ~IsWord(text[ab[2] + 1]))}

FirstRun(text, runs) ==
    LET ab == CHOOSE r \in runs : \A r2 \in runs : r[1] <= r2[1]
    IN  SubSeq(text, ab[1], ab[2])

\* The first 8 characters of the text without its punctuation.
Truncation(text) ==
    LET kept == SelectSeq(text, LAMBDA c : IsWord(c) \/ IsSpace(c) \/ c = "-")
    IN  SubSeq(kept, 1, Min2(8, Len(kept)))

\* The result the ordered chain prescribes for a text that is not blank.
FollowsChain(text, result) ==
    IF SomePart(text, IsContract)
    THEN OccursIn(text, result) /\ IsContract(result)
    ELSE IF SomePart(text, IsReference)
    THEN OccursIn(text, result) /\ IsReference(result)
    ELSE IF LabelledRuns(text) # {}
    THEN result = FirstRun(text, LabelledRuns(text))
    ELSE IF BareRuns(text) # {}
    THEN result = FirstRun(text, BareRuns(text))
    ELSE IF Truncation(text) # <<>> /\ Truncation(text) # text
    THEN result = Truncation(text)
    ELSE result = Sentinel

ExampleContract == <<"C", "_", "5", "1", "6", "9", "1", "3">>

\* "Счёт №2497 оплата", with one letter standing for the last word
ExampleInvoice ==
    <<"CY_S", "cy_ch", "cy_yo", "cy_t", " ", "No", "2", "4", "9", "7", " ", "cy_o">>

ExamplesFollowChain ==
    /\ extract_payment_id(Str(ExampleContract)) = ExampleContract
    /\ extract_payment_id(Str(ExampleInvoice)) = <<"2", "4", "9", "7">>

OnlyDigitRunIs8000(text) ==
    /\ SelectSeq(text, IsDigit) = <<"8", "0", "0", "0">>
    /\ Cardinality(DigitRuns(text)) = 1

\* C13: for a cell text whose only digit run is 8000, _extract_payment_id
\* never returns "8000".
C13_Never8000 ==
    (TransactionIdReturned /\ fn_call.present /\ fn_call.cell.t = "str"
        /\ OnlyDigitRunIs8000(CellText))
        => fn_return # <<"8", "0", "0", "0">>

IsValidReturned == fnpc = "done" /\ fn_call.fn = "_is_valid_payment"

Absent(value) == value = None \/ value = Str(<<>>)

ParsesAsNumber(amount) ==
    float_parses(SelectSeq(amount.v, LAMBDA c : c \notin {",", "$", "EUR", "RUB"}))

ExampleAmountIsValid ==
    is_valid_payment([amount |-> Str(<<"1", ",", "2", "3", "4", ".", "5", "6">>),
                      transaction_id |-> Str(Sentinel)])

\* C14: _is_valid_payment returns true exactly when the amount is present, the
\* transaction_id is present (the sentinel counts) and the amount parses as a
\* number without ',', '$', the euro and the rouble sign; it leaves its
\* argument alone; amount None is invalid, "1,234.56" with "-" is valid.
C14_ValidExactlyWhen ==
    /\ IsValidReturned =>
          fn_return = (/\ ~Absent(fn_call.payment.amount)
                       /\ ~Absent(fn_call.payment.transaction_id)
                       /\ ParsesAsNumber(fn_call.payment.amount))
    /\ (IsValidReturned /\ fn_call.payment.amount = None) => fn_return = FALSE
    /\ ExampleAmountIsValid

\* The call for amount "1,234.56" and transaction_id "-" returned true.
C14_Witness ==
    /\ IsValidReturned
    /\ fn_call.payment = [amount |-> Str(<<"1", ",", "2", "3", "4", ".", "5", "6">>),
                          transaction_id |-> Str(Sentinel)]
    /\ fn_return = TRUE

-----------------------------------------------------------------------------
(* Properties of the payload and of transport failures (SpecBatch)          *)

\* The payment has no amount or date, or one that does not parse.
LacksAmountOrDate(payment) ==
    \/ format_amount(payment.amount) = None
    \/ payment.date \in {"null", "unparseable"}

\* C15: a chunk that holds a payment whose amount or date is missing or
\* unparseable is still handed to the transport: session.post is called for
\* it, and the date of such a payment is null in the payload or the text it
\* came as.
C15_MissingFieldStillPosted ==
    \A n \in 1..Len(calls) :
        (webhook_url /\ \E j \in 1..Len(calls[n].chunk) :
                            LacksAmountOrDate(calls[n].chunk[j]))
            => calls[n].posted

\* C16: the payload posted for a chunk has payments_count equal to the length
\* of the chunk and one formatted payment per payment of the chunk, in the
\* chunk's order; a chunk reported as delivered was posted so.
C16_PayloadDescribesChunk ==
    \A n \in 1..Len(calls) :
        (calls[n].posted \/ calls[n].ret) =>
            /\ calls[n].posted
            /\ calls[n].payload.payments_count = Len(calls[n].chunk)
            /\ Len(calls[n].payload.payments) = Len(calls[n].chunk)
            /\ \A j \in 1..Len(calls[n].chunk) :
                  calls[n].payload.payments[j].id = calls[n].chunk[j].id

\* The outcomes of the request that are transport failures: a timeout, a
\* connection error, a status outside 2xx.
TransportFailures == {"timeout", "connection_error", "500"}

\* C17: a timeout, a connection error or a non-2xx status of the request for a
\* chunk makes send_webhook return False and nothing else: the chunk is counted
\* once in failed_batches, the loop moves on to the next chunk, and
\* send_webhook_batch returns its result without taking the except clause.
C17_TransportFailureIsFailedBatch ==
    /\ (Len(calls) > 0 /\ response \in TransportFailures)
          => (calls[Len(calls)].posted /\ ~calls[Len(calls)].ret)
    /\ (batch_size >= 1 /\ bpc \in {"loop", "done"}) =>
          /\ failed_batches = Cardinality(Failed)
          /\ batches_sent = Cardinality(Delivered)
          /\ i = Len(calls) * batch_size
    /\ (batch_size >= 1 /\ bpc = "done" /\ payments # <<>>) =>
          /\ batch_result.returned
          /\ ~batch_result.error
          /\ batch_result.failed_batches = Cardinality(Failed)
          /\ Len(calls) = CeilDiv(Len(payments), batch_size)

\* The request for the first chunk failed, the second chunk was attempted and
\* its request hit a connection error: two failed batches, a normal return.
C17_Witness ==
    /\ bpc = "done"
    /\ Len(calls) = 2
    /\ calls[1].posted /\ ~calls[1].ret
    /\ response = "connection_error"
    /\ calls[2].posted /\ ~calls[2].ret
    /\ batch_result.failed_batches = 2
    /\ ~batch_result.error

-----------------------------------------------------------------------------
(* Properties of process_downloaded_files (SpecFiles)                       *)

\* The CSV files a downloaded file stands for, in processing order.
CsvFilesOf(file) ==
    CASE file.kind = "csv" -> <<file.csv>>
      [] file.kind = "archive" -> (IF file.extracts THEN file.folder ELSE <<>>)
      [] OTHER -> <<>>

\* The records of each CSV file that parses.
RecordsOf ==
    [t \in {f \in CsvTables : f.readable} |->
        extract_payments(t.rows, filter_rows(t.rows, 1, t.columns), t.columns)]

\* The records of the CSV files that parse, file after file.
RECURSIVE RecordsOfParsed(_)
RecordsOfParsed(csvs) ==
    IF csvs = <<>> THEN <<>>
    ELSE (IF Head(csvs).readable THEN RecordsOf[Head(csvs)] ELSE <<>>)
            \o RecordsOfParsed(Tail(csvs))

\* The files the loop of process_downloaded_files has gone through.
FilesHandled ==
    SubSeq(downloaded_files, 1, Min2(file_index - 1, Len(downloaded_files)))

UnparseableReturnsEmpty ==
    \A t \in CsvTables : ~t.readable => process_csv_file(t) = <<>>

AllCsvFiles(files) == Concat([n \in 1..Len(files) |-> CsvFilesOf(files[n])])

\* C18: a file that cannot be parsed and an archive that cannot be extracted
\* contribute nothing and stop nothing: process_csv_file returns the empty list
\* for the one, and process_downloaded_files returns the records of all the
\* files that parsed, in order.
C18_ParseFailureIsLocal ==
    /\ UnparseableReturnsEmpty
    /\ flpc = "loop" => file_payments = RecordsOfParsed(AllCsvFiles(FilesHandled))
    /\ flpc = "done" =>
          file_payments = RecordsOfParsed(AllCsvFiles(downloaded_files))

\* An archive that does not extract, then a file that does not parse, then a
\* file with a payment: the result is that payment.
C18_Witness ==
    /\ flpc = "done"
    /\ Len(downloaded_files) = 3
    /\ downloaded_files[1].kind = "archive" /\ ~downloaded_files[1].extracts
    /\ downloaded_files[2].kind = "csv" /\ ~downloaded_files[2].csv.readable
    /\ downloaded_files[3].kind = "csv" /\ downloaded_files[3].csv.readable
    /\ Len(file_payments) = 1

-----------------------------------------------------------------------------
(* Properties of a failed persistence step within a run (SpecRun)           *)

\* The ids a tracker constructed now would load from the tracking file.
PersistedIds == load_processed_emails(tracking_file).value

\* C19: a mark_as_processed whose persistence step failed did not raise and
\* added its id to the in-memory set, and every id marked in the run stays in
\* that set, so is_processed answers true for it until the run ends, whatever
\* the file holds.
C19_FailedSaveKeepsMemory ==
    /\ (lastOp.op = "mark" /\ lastOp.outcome # "ok") =>
          /\ ~lastOp.raised
          /\ is_processed(processed_emails, lastOp.arg)
    /\ \A id \in markedThisRun : is_processed(processed_emails, id)

\* A run has returned; the persistence step of one of its marks failed, and
\* the file lacks an id that is_processed answers true for.
C19_Witness ==
    /\ pc = "returned"
    /\ ~savesOk
    /\ \E id \in markedThisRun :
          /\ id \notin PersistedIds
          /\ is_processed(processed_emails, id)

-----------------------------------------------------------------------------
(* Properties of the error list of a run (SpecRun)                          *)

\* The run got past the connection: its only errors are those it collected.
CollectedErrors == "critical" \notin Range(errors)

\* C20: process_emails does not give up on a partial failure.  Each email
\* whose handling raised has one entry in the error list, and the loop had gone
\* through every email when the run returned; a failed webhook dispatch has
\* its entry; and the run reports success exactly when the error list is empty.
C20_PartialFailuresAreCollected ==
    /\ Count(errors, "email") = Cardinality(raisedFor)
    /\ pc = "returned" =>
          /\ (run_result = "success") <=> (errors = <<>>)
          /\ (CollectedErrors /\ emails_with_downloads # <<>>) =>
                k > Len(emails_with_downloads)
          /\ (batch_result.returned /\ ~batch_result.success) =>
                Count(errors, "webhook") = 1
          /\ (batch_result.returned /\ batch_result.success) =>
                Count(errors, "webhook") = 0

\* The handling of the first email raised, the second one was handled and
\* marked, the dispatch of its payment failed, and the run reports failure with
\* both entries.
C20_Witness ==
    /\ pc = "returned"
    /\ Len(emails_with_downloads) = 2
    /\ emails_with_downloads[1] \in raisedFor
    /\ emails_with_downloads[2] \in markedThisRun
    /\ errors = <<"email", "webhook">>
    /\ run_result = "failure"

-----------------------------------------------------------------------------
(* Properties of the amount formatting of the webhook (SpecFields)          *)

CurrencyReturned == fnpc = "done" /\ fn_call.fn = "_extract_currency"

\* The codes of the signs of the table that occur in the amount.
CodesIn(amount) ==
    IF amount = None THEN {}
    ELSE {currency_map[n].code : n \in {m \in 1..Len(currency_map) :
                                           OccursIn(amount.v, <<currency_map[m].symbol>>)}}

\* C21: the currency is the code of a sign of the table that occurs in the
\* amount, and it is RUB for an amount without such a sign, the absent amount
\* included.
C21_CurrencyFromSymbolOrRUB ==
    CurrencyReturned =>
        IF CodesIn(fn_call.amount) = {}
        THEN fn_return = "RUB"
        ELSE fn_return \in CodesIn(fn_call.amount)

FormatAmountReturned == fnpc = "done" /\ fn_call.fn = "_format_amount"

\* The amount is one _is_valid_payment accepts in a record with an id.
AcceptedAmount(amount) ==
    is_valid_payment([amount |-> amount, transaction_id |-> Str(Sentinel)])

\* The number validation parsed: the amount without thousands separators and
\* currency signs.
ValidatedNumber(amount) == float_value(without_chars(amount.v, ValidationSymbols))

\* C22: an amount _is_valid_payment accepts is formatted to the number
\* validation parsed, never to null.
C22_AcceptedAmountKeepsItsNumber ==
    (FormatAmountReturned /\ AcceptedAmount(fn_call.amount)) =>
        /\ fn_return # None
        /\ fn_return.v = ValidatedNumber(fn_call.amount)

-----------------------------------------------------------------------------
(* Properties of the field mapping of process_csv_file (SpecCsv)            *)

\* The record has null, or the dash for the id, in every field whose column
\* the table lacks.
DegradedFields(payment) ==
    /\ payment_amount_column \notin table.columns => payment.amount = None
    /\ payment_date_column \notin table.columns => payment.date = None
    /\ customer_id_column \notin table.columns => payment.customer_id = None
    /\ payment_id_column \notin table.columns => payment.transaction_id = Str(Sentinel)

\* The retained rows whose amount cell holds a number.
RowsWithAmount ==
    {n \in Range(filtered_df) : table.rows[n][payment_amount_column] = Str(<<"1", "0", "0">>)}

\* C23: a configured payment column the table lacks is no failure.  The record
\* built for a retained row has null for a missing amount, date or customer_id
\* and the dash for a missing transaction_id, and the file still gives the
\* payments of its retained rows that have an amount.
C23_MissingColumnDegrades ==
    (cpc = "done" /\ table.readable) =>
        /\ \A n \in Range(filtered_df) :
              DegradedFields(payment_of_row(table.rows, n, table.columns))
        /\ \A m \in 1..Len(csv_payments) : DegradedFields(csv_payments[m])
        /\ {csv_payments[m].row : m \in 1..Len(csv_payments)}
              = IF payment_amount_column \in table.columns THEN RowsWithAmount ELSE {}

\* A table without the date column: its retained row is in the output with a
\* null date.
C23_Witness ==
    /\ cpc = "done"
    /\ table.readable
    /\ payment_date_column \notin table.columns
    /\ Len(table.rows) >= 2
    /\ csv_payments # <<>>
    /\ csv_payments[1].date = None
    /\ csv_payments[1].amount = Str(<<"1", "0", "0">>)

-----------------------------------------------------------------------------
(* Properties of calculate_next_run_time (SpecSchedule)                     *)

NextRunReturned == fnpc = "done" /\ fn_call.fn = "calculate_next_run_time"

\* The current time of the call, in the schedule's timezone.
CurrentTime == current_in_zone(fn_call.zone, fn_call.current)

DateOf(dt) == dt.wall \div DayMinutes

\* The scheduled time on the date of the current time.
ScheduledToday ==
    localize(fn_call.zone,
             DateOf(CurrentTime) * DayMinutes + fn_call.hour * HourMinutes + fn_call.minute)

BeforeScheduledToday == utc_minute(CurrentTime) < utc_minute(ScheduledToday)

MinutesToNextRun == utc_minute(fn_return) - utc_minute(CurrentTime)

\* C30: the returned time is later than the current time, by 24 hours at
\* most, and it is the scheduled time of the next date when the current time
\* is the scheduled time of its date.
C30_NextRunWithinADay ==
    NextRunReturned =>
        /\ MinutesToNextRun > 0
        /\ MinutesToNextRun <= DayMinutes
        /\ utc_minute(CurrentTime) = utc_minute(ScheduledToday)
              => fn_return.wall = ScheduledToday.wall + DayMinutes

-----------------------------------------------------------------------------
(* Properties of the webhook authentication (SpecAuth)                      *)

\* The text without the blanks around it; the empty text for an unset variable.
Trimmed(value) ==
    IF value = None THEN <<>>
    ELSE LET inner == {n \in 1..Len(value.v) : value.v[n] # " "}
         IN  IF inner = {} THEN <<>>
             ELSE SubSeq(value.v, CHOOSE a \in inner : \A b \in inner : a <= b,
                                  CHOOSE a \in inner : \A b \in inner : a >= b)

SenderBuilt == fnpc = "done" /\ fn_call.fn = "WebhookSender"

\* C25: the Authorization header is there, and is "Bearer <token>", exactly
\* when WEBHOOK_TOKEN is not empty after trimming; the session has the basic
\* auth (username, password) exactly when both WEBHOOK_BASIC_USERNAME and
\* WEBHOOK_BASIC_PASSWORD are not empty after trimming.
C25_AuthFollowsConfiguration ==
    SenderBuilt =>
        LET token    == Trimmed(fn_call.WEBHOOK_TOKEN)
            username == Trimmed(fn_call.WEBHOOK_BASIC_USERNAME)
            password == Trimmed(fn_call.WEBHOOK_BASIC_PASSWORD)
        IN  /\ fn_return.webhook_headers.authorization
                  = IF token # <<>> THEN Str(<<"Bearer ">> \o token) ELSE None
            /\ fn_return.session.headers.authorization
                  = fn_return.webhook_headers.authorization
            /\ fn_return.session.auth
                  = IF username # <<>> /\ password # <<>>
                    THEN [username |-> username, password |-> password]
                    ELSE None

\* A token between blanks, a username, and a blank password: the header has
\* the trimmed token and the session has no basic auth.
C25_Witness ==
    /\ SenderBuilt
    /\ fn_call.WEBHOOK_TOKEN = Str(<<" ", "a", "b", " ">>)
    /\ fn_call.WEBHOOK_BASIC_USERNAME = Str(<<"a", "b">>)
    /\ fn_call.WEBHOOK_BASIC_PASSWORD = Str(<<" ">>)
    /\ fn_return.session.headers.authorization = Str(<<"Bearer ", "a", "b">>)
    /\ fn_return.session.auth = None

-----------------------------------------------------------------------------
(* Properties of marking and delivery within a run (SpecRun)                *)

\* The payment was in a chunk that was posted and answered with success.
DeliveredInRun(payment) ==
    \E c \in 1..Len(calls) :
        /\ calls[c].posted
        /\ calls[c].ret
        /\ \E n \in 1..Len(calls[c].chunk) : calls[c].chunk[n] = payment

\* C26: when a run has returned, the payments extracted from every email it
\* marked as processed were sent in a chunk that was delivered.
C26_MarkedMeansDelivered ==
    pc = "returned" =>
        \A n \in 1..Len(all_payments) :
            all_payments[n].email \in markedThisRun => DeliveredInRun(all_payments[n])

-----------------------------------------------------------------------------
(* Properties of the success flag of send_webhook_batch (SpecBatch)         *)

\* The payment at position n was in a chunk that was posted and answered with
\* success.
HandedOver(n) ==
    \E c \in 1..Len(calls) :
        /\ calls[c].posted
        /\ calls[c].ret
        /\ \E m \in 1..Len(calls[c].chunk) : calls[c].chunk[m] = payments[n]

\* C27: for a list that is not empty and any batch_size, success is reported
\* only if at least one batch was sent and every payment was in a chunk that
\* was delivered.
C27_SuccessMeansAllHandedOver ==
    (batch_result.returned /\ payments # <<>> /\ batch_result.success) =>
        /\ batch_result.batches_sent > 0
        /\ \A n \in 1..Len(payments) : HandedOver(n)

-----------------------------------------------------------------------------
(* Properties of an email without downloaded files (SpecRun)                *)

\* The ids a fetch of the mailbox returns when every message can be read.
EligibleIds ==
    LET found == get_latest_emails_with_downloads(mailbox, DOMAIN mailbox,
                                                  processed_emails, FetchLimit)
    IN  {found[n] : n \in 1..Len(found)}

\* The emails of the payments in the chunks given to the webhook in this run.
EmailsDispatched ==
    {calls[c].chunk[n].email : <<c, n>> \in
        {cn \in (1..Len(calls)) \X (1..RunBatchSize) : cn[2] <= Len(calls[cn[1]].chunk)}}

\* C28: an email for which download_files returned no file is, in that run,
\* neither marked as read nor added to the ledger, has no payment among those
\* collected and dispatched, and is still returned by a fetch.
C28_EmptyDownloadStaysEligible ==
    \A id \in noFilesFor :
        /\ id \notin markedThisRun
        /\ id \in processed_emails => id \in ledgerAtFetch
        /\ \A n \in 1..Len(all_payments) : all_payments[n].email # id
        /\ id \notin EmailsDispatched
        /\ id \in EligibleIds

\* A run has returned in which one email had no file and another was marked
\* and its payments dispatched.
C28_Witness ==
    /\ pc = "returned"
    /\ noFilesFor # {}
    /\ markedThisRun # {}
    /\ EmailsDispatched # {}

-----------------------------------------------------------------------------
(* Properties of _wait_for_download (SpecDownload)                          *)

WaitReturned == fnpc = "done" /\ fn_call.fn = "_wait_for_download"

\* C29: a path _wait_for_download returns is not in initial_files and does
\* not end in .crdownload, .tmp or .part (the function returns, at the latest
\* in the pass after the timeout: WaitTerminates).
C29_ReturnsCompletedNewFile ==
    (WaitReturned /\ fn_return # None) =>
        /\ fn_return \notin fn_call.initial_files
        /\ ~endswith(fn_return, PartialSuffixes)

\* The returned path is new, whatever its ending.
C29_ReturnsNewFile ==
    (WaitReturned /\ fn_return # None) => fn_return \notin fn_call.initial_files

\* The clock never passes the timeout while the function runs, and the
\* function returns.
WaitWithinTimeout == fn_call.fn = "_wait_for_download" => clock <= fn_call.timeout
WaitTerminates == <>WaitReturned

=============================================================================
